---- MODULE Spec2Model ----
(***************************************************************************)
(* Fair Fares funnel aggregation: the script (fair_fares_sankey.py) and    *)
(* the class-based pipeline (fair-fares/data_loader.py, analyzer.py,       *)
(* visualization.py) over one survey spreadsheet.                          *)
(*                                                                         *)
(* The spreadsheet is the input.  Only the four funnel columns (positional *)
(* indices 28..31) are read by the code, so a row is modelled by the cells *)
(* of those of the four columns that the sheet has.                        *)
(***************************************************************************)
EXTENDS Integers, Sequences, FiniteSets, TLC

VARIABLES
    prog,              \* which program runs: fair_fares_sankey.py or fair-fares/run_analysis.py
    file,              \* the spreadsheet on disk
    df,                \* FairFaresDataLoader.df (None until loaded)
    pc,                \* the position of the program
    call,              \* the operation that returned last
    ret,               \* what it returned
    analysis_results,  \* the dictionary run_all_analyses is filling
    sankey_data,       \* what extract_sankey_data returned
    fig,               \* what create_sankey_diagram returned
    html,              \* whether fair_fares_sankey.html was written
    column_indices     \* FairFaresDataLoader.column_indices

vars ==
    <<prog, file, df, pc, call, ret, analysis_results, sankey_data, fig, html, column_indices>>

(***************************************************************************)
(* Bounds of the model.                                                    *)
(***************************************************************************)
MaxRows == 2

(***************************************************************************)
(* Cell values.  A cell read by pandas is a string, a number or NaN.       *)
(***************************************************************************)
Str(x) == [kind |-> "str", s |-> x, n |-> 0]
Num(x) == [kind |-> "int", s |-> "", n |-> x]
NaN == [kind |-> "nan", s |-> "", n |-> 0]

isna(v) == v.kind = "nan"

\* str(value) as Python prints a cell value
str(v) == IF v.kind = "int" THEN ToString(v.n) ELSE v.s

\* value_str = str(value) if not pd.isna(value) else "No response"
value_str(v) == IF ~isna(v) THEN str(v) ELSE "No response"

None == [kind |-> "None"]

(***************************************************************************)
(* data_loader.py: column_indices, as __init__ sets it                     *)
(***************************************************************************)
initial_column_indices ==
    [awareness |-> 28, application |-> 29, acceptance |-> 30, financial_burden |-> 31]

FunnelCols == {28, 29, 30, 31}

\* the funnel columns present in a sheet of ncols columns (indices 0..ncols-1)
ColsOf(ncols) == {c \in FunnelCols : c < ncols}

(***************************************************************************)
(* The inputs: the column count of the sheet and, for each funnel column,  *)
(* the cell values a row may hold there: the named categories of the       *)
(* stage, a blank cell, and an answer outside the categories.  Every       *)
(* modelled result is a count over the rows, so the sheets are enumerated  *)
(* up to the order of their rows: rows appear in the order of RowCode.     *)
(***************************************************************************)
ColCounts == {28, 29, 30, 31, 32}

CellSeq(c) ==
    CASE c = 28 -> <<Str("Yes"), Str("No"), NaN>>
      [] c = 29 -> <<Str("Yes"), Str("No"), NaN>>
      [] c = 30 -> <<Str("Accepted"), Str("Pending"), NaN>>
      [] c = 31 -> <<Str("Yes"), Str("Maybe")>>

\* rows are numbered in mixed radix, column 28 the lowest digit
RECURSIVE Weight(_)
Weight(c) == IF c = 28 THEN 1 ELSE Len(CellSeq(c - 1)) * Weight(c - 1)

RowOf(ncols, code) ==
    [c \in ColsOf(ncols) |-> CellSeq(c)[((code \div Weight(c)) % Len(CellSeq(c))) + 1]]

RowCodes(ncols) == 0..(Weight(IF ncols > 32 THEN 32 ELSE ncols) - 1)

InRowOrder(codes) == \A i \in 1..(Len(codes) - 1) : codes[i] <= codes[i + 1]

\* the sheet of ncols columns whose rows have the given codes
Sheet(ncols, codes) ==
    [ncols |-> ncols, rows |-> [i \in DOMAIN codes |-> RowOf(ncols, codes[i])]]

\* the ten-row scenario of the specification's testable properties:
\* awareness [Yes,Yes,No,Yes,No,No,No,Yes,blank,No], and application
\* [Yes,No,Yes,blank] on the four 'Yes' rows
ScenarioRow(awareness, application) ==
    (28 :> awareness) @@ (29 :> application) @@ (30 :> NaN) @@ (31 :> Str("Maybe"))

ScenarioSheet ==
    [ncols |-> 32,
     rows |-> <<ScenarioRow(Str("Yes"), Str("Yes")), ScenarioRow(Str("Yes"), Str("No")),
                ScenarioRow(Str("No"), NaN), ScenarioRow(Str("Yes"), Str("Yes")),
                ScenarioRow(Str("No"), Str("No")), ScenarioRow(Str("No"), NaN),
                ScenarioRow(Str("No"), NaN), ScenarioRow(Str("Yes"), NaN),
                ScenarioRow(NaN, NaN), ScenarioRow(Str("No"), Str("Yes"))>>]

\* the file is missing, or cannot be read, or holds a sheet
IsFile(f) ==
    \/ f = [state |-> "missing"]
    \/ f = [state |-> "unreadable"]
    \/ f = [state |-> "ok", sheet |-> ScenarioSheet]
    \/ \E k \in ColCounts, n \in 0..MaxRows :
          \E codes \in [1..n -> RowCodes(k)] :
              /\ InRowOrder(codes)
              /\ f = [state |-> "ok", sheet |-> Sheet(k, codes)]

(***************************************************************************)
(* pandas helpers                                                          *)
(***************************************************************************)
\* df[column]: the cells of one column, aligned with the rows
column(d, c) == [i \in DOMAIN d.rows |-> d.rows[i][c]]

\* len(df)
len(d) == Len(d.rows)

\* df[df[column] == value]
filter_eq(d, c, v) == [d EXCEPT !.rows = SelectSeq(d.rows, LAMBDA r : r[c] = v)]

\* Series.value_counts(dropna=False): value -> number of cells equal to it
value_counts(col) ==
    [v \in {col[i] : i \in DOMAIN col} |-> Cardinality({i \in DOMAIN col : col[i] = v})]

\* counts.get(key, 0)
get(counts, v) == IF v \in DOMAIN counts THEN counts[v] ELSE 0

RECURSIVE SumOver(_, _)
SumOver(f, S) ==
    IF S = {} THEN 0
    ELSE LET x == CHOOSE y \in S : TRUE IN f[x] + SumOver(f, S \ {x})

\* sum with the blank cells left out, as value_counts() without dropna=False counts
sum_dropna(counts) == SumOver(counts, {v \in DOMAIN counts : ~isna(v)})

\* sum(value_counts)
sum(counts) == SumOver(counts, DOMAIN counts)

(***************************************************************************)
(* fair_fares_sankey.py: extract_sankey_data                               *)
(***************************************************************************)
Ok(d) == [kind |-> "dict", data |-> d]

\* the application stage tabulated on every row instead of the aware rows
script_aware_people_unfiltered(d) == d

\* aware_people = df[df[awareness_column] == 'Yes']
script_aware_people(d) == filter_eq(d, 28, Str("Yes"))

\* applied_people = df[df[application_column] == 'Yes']
script_applied_people(d) == filter_eq(d, 29, Str("Yes"))

\* accepted_people = df[df[acceptance_column] == 'Accepted']
script_accepted_people(d) == filter_eq(d, 30, Str("Accepted"))

\* total_responses = len(df)
script_total_responses(d) == len(d)

\* residual = parent count - (sum of the named category counts)
residual(parent, named) == parent - named

script_sankey_data(d) ==
    LET total_responses == script_total_responses(d)
        awareness_counts == value_counts(column(d, 28))
        aware_count == get(awareness_counts, Str("Yes"))
        unaware_count == get(awareness_counts, Str("No"))
        application_counts == value_counts(column(script_aware_people(d), 29))
        applied_count == get(application_counts, Str("Yes"))
        not_applied_count == get(application_counts, Str("No"))
        acceptance_counts == value_counts(column(script_applied_people(d), 30))
        accepted_count == get(acceptance_counts, Str("Accepted"))
        rejected_count == get(acceptance_counts, Str("Rejected"))
        pending_count == get(acceptance_counts, Str("Pending"))
        financial_burden_counts == value_counts(column(script_accepted_people(d), 31))
        reduced_burden_count == get(financial_burden_counts, Str("Yes"))
        not_reduced_burden_count == get(financial_burden_counts, Str("No"))
    IN  [total_responses |-> total_responses,
         aware_count |-> aware_count,
         unaware_count |-> unaware_count,
         no_awareness_response |-> residual(total_responses, aware_count + unaware_count),
         applied_count |-> applied_count,
         not_applied_count |-> not_applied_count,
         no_application_response |-> residual(aware_count, applied_count + not_applied_count),
         accepted_count |-> accepted_count,
         rejected_count |-> rejected_count,
         pending_count |-> pending_count,
         no_acceptance_response |->
             residual(applied_count, accepted_count + rejected_count + pending_count),
         reduced_burden_count |-> reduced_burden_count,
         not_reduced_burden_count |-> not_reduced_burden_count,
         no_burden_response |->
             residual(accepted_count, reduced_burden_count + not_reduced_burden_count)]

\* if len(df.columns) <= 31: return None
script_columns_found(d) == ~(d.ncols <= 31)

\* the whole function: pd.read_excel raising is caught and gives None
script_extract_sankey_data(f) ==
    IF f.state # "ok" THEN None
    ELSE IF ~script_columns_found(f.sheet) THEN None
    ELSE Ok(script_sankey_data(f.sheet))

(***************************************************************************)
(* fair-fares/data_loader.py                                               *)
(***************************************************************************)
\* a failed load leaving an empty DataFrame in self.df
load_data_empty_frame(f) == IF f.state = "ok" THEN f.sheet ELSE [ncols |-> 0, rows |-> <<>>]

\* the value load_data returns: True when the file exists and reads
load_data_returns(f) == f.state = "ok"

\* load_data: self.df stays None unless the file exists and reads
load_data(f) == IF f.state = "ok" THEN f.sheet ELSE None

\* get_<key>_column: None when df is None or the index is past the columns
get_column(d, key) ==
    IF d = None \/ d.ncols <= column_indices[key] THEN None
    ELSE [kind |-> "column", index |-> column_indices[key]]

get_awareness_column(d) == get_column(d, "awareness")
get_application_column(d) == get_column(d, "application")
get_acceptance_column(d) == get_column(d, "acceptance")
get_financial_burden_column(d) == get_column(d, "financial_burden")

(***************************************************************************)
(* fair-fares/analyzer.py                                                  *)
(***************************************************************************)
\* first row position at which value v occurs in a column
first_pos(col, v) == CHOOSE i \in DOMAIN col : col[i] = v /\ \A j \in DOMAIN col : col[j] = v => i <= j

\* position of v in the iteration order of value_counts: by descending
\* count, ties in order of first appearance
rank(col, v) ==
    LET counts == value_counts(col)
    IN  Cardinality({u \in DOMAIN counts :
            \/ counts[u] > counts[v]
            \/ counts[u] = counts[v] /\ first_pos(col, u) < first_pos(col, v)})

\* the loop "for value, count in counts.items(): results[value_str] = {...}":
\* a later item overwrites an earlier one with the same value_str
stage_results(col, total) ==
    LET counts == value_counts(col)
        keys == {value_str(v) : v \in DOMAIN counts}
        last(k) == CHOOSE v \in DOMAIN counts :
                       /\ value_str(v) = k
                       /\ \A u \in DOMAIN counts : value_str(u) = k => rank(col, u) <= rank(col, v)
    IN  [k \in keys |->
            [count |-> counts[last(k)],
             percentage |-> [num |-> counts[last(k)] * 100, den |-> total]]]

StageResult(total_key, total, results) ==
    [kind |-> "dict", total_key |-> total_key, total |-> total, results |-> results]

\* the "if total == 0: return None" guard of the three filtered analyses
empty_stage(total) == total = 0

analyze_awareness(d) ==
    IF d = None THEN None
    ELSE IF get_awareness_column(d) = None THEN None
    ELSE LET col == column(d, get_awareness_column(d).index)
             total_responses == sum(value_counts(col))
         IN  StageResult("total_responses", total_responses, stage_results(col, total_responses))

analyze_application_rates(d) ==
    IF d = None THEN None
    ELSE IF get_awareness_column(d) = None \/ get_application_column(d) = None THEN None
    ELSE LET aware_people == filter_eq(d, get_awareness_column(d).index, Str("Yes"))
             total_aware == len(aware_people)
         IN  IF empty_stage(total_aware) THEN None
             ELSE StageResult("total_aware", total_aware,
                      stage_results(column(aware_people, get_application_column(d).index),
                                    total_aware))

analyze_acceptance_rates(d) ==
    IF d = None THEN None
    ELSE IF \/ get_awareness_column(d) = None
            \/ get_application_column(d) = None
            \/ get_acceptance_column(d) = None THEN None
    ELSE LET applied_people == filter_eq(d, get_application_column(d).index, Str("Yes"))
             total_applied == len(applied_people)
         IN  IF empty_stage(total_applied) THEN None
             ELSE StageResult("total_applied", total_applied,
                      stage_results(column(applied_people, get_acceptance_column(d).index),
                                    total_applied))

analyze_financial_burden_reduction(d) ==
    IF d = None THEN None
    ELSE IF get_acceptance_column(d) = None \/ get_financial_burden_column(d) = None THEN None
    ELSE LET accepted_people == filter_eq(d, get_acceptance_column(d).index, Str("Accepted"))
             total_accepted == len(accepted_people)
         IN  IF empty_stage(total_accepted) THEN None
             ELSE StageResult("total_accepted", total_accepted,
                      stage_results(column(accepted_people, get_financial_burden_column(d).index),
                                    total_accepted))

StageNames == {"awareness", "application", "acceptance", "financial_burden"}

analyze(stage, d) ==
    CASE stage = "awareness" -> analyze_awareness(d)
      [] stage = "application" -> analyze_application_rates(d)
      [] stage = "acceptance" -> analyze_acceptance_rates(d)
      [] stage = "financial_burden" -> analyze_financial_burden_reduction(d)

\* run_all_analyses: a stage is recorded only when its result is truthy
run_all_analyses(d) ==
    [s \in {t \in StageNames : analyze(t, d) # None} |-> analyze(s, d)]

(***************************************************************************)
(* fair-fares/visualization.py: extract_sankey_data                        *)
(***************************************************************************)
\* results.get(key, {}).get('count', 0)
count_of(results, key) == IF key \in DOMAIN results THEN results[key].count ELSE 0

\* analysis_results.get(stage, {}).get('results', {})
results_of(ar, stage) ==
    IF stage \in DOMAIN ar THEN ar[stage].results ELSE <<>>

\* the total taken from the 'Yes' and 'No' answers only
viz_total_responses_answered(ar) ==
    count_of(results_of(ar, "awareness"), "Yes") + count_of(results_of(ar, "awareness"), "No")

\* awareness_results.get('total_responses', 0)
viz_total_responses(ar) ==
    IF "awareness" \in DOMAIN ar THEN ar["awareness"].total ELSE 0

viz_sankey_data(ar) ==
    LET total_responses == viz_total_responses(ar)
        awareness_data == results_of(ar, "awareness")
        aware_count == count_of(awareness_data, "Yes")
        unaware_count == count_of(awareness_data, "No")
        application_data == results_of(ar, "application")
        applied_count == count_of(application_data, "Yes")
        not_applied_count == count_of(application_data, "No")
        acceptance_data == results_of(ar, "acceptance")
        accepted_count == count_of(acceptance_data, "Accepted")
        rejected_count == count_of(acceptance_data, "Rejected")
        pending_count == count_of(acceptance_data, "Pending")
        financial_burden_data == results_of(ar, "financial_burden")
        reduced_burden_count == count_of(financial_burden_data, "Yes")
        not_reduced_burden_count == count_of(financial_burden_data, "No")
    IN  [total_responses |-> total_responses,
         aware_count |-> aware_count,
         unaware_count |-> unaware_count,
         no_awareness_response |-> residual(total_responses, aware_count + unaware_count),
         applied_count |-> applied_count,
         not_applied_count |-> not_applied_count,
         no_application_response |->
             residual(count_of(awareness_data, "Yes"), applied_count + not_applied_count),
         accepted_count |-> accepted_count,
         rejected_count |-> rejected_count,
         pending_count |-> pending_count,
         no_acceptance_response |->
             residual(count_of(application_data, "Yes"),
                      accepted_count + rejected_count + pending_count),
         reduced_burden_count |-> reduced_burden_count,
         not_reduced_burden_count |-> not_reduced_burden_count,
         no_burden_response |->
             residual(count_of(acceptance_data, "Accepted"),
                      reduced_burden_count + not_reduced_burden_count)]

\* analysis results holding no response at all taken for no results
no_analysis_responses(ar) == \A s \in DOMAIN ar : ar[s].total = 0

\* "if not analysis_results: return None": an empty dict is falsy
no_analysis_results(ar) == DOMAIN ar = {}

\* an empty dictionary, not None, when there is nothing to extract from
viz_extract_sankey_data_or_empty(d) ==
    LET ar == run_all_analyses(d)
    IN  IF no_analysis_results(ar) THEN Ok(<<>>)
        ELSE Ok(viz_sankey_data(ar))

viz_extract_sankey_data(d) ==
    LET ar == run_all_analyses(d)
    IN  IF no_analysis_results(ar) THEN None
        ELSE Ok(viz_sankey_data(ar))

(***************************************************************************)
(* create_sankey_diagram: the node and link lists (the same in             *)
(* fair_fares_sankey.py and visualization.py); node indices are 0-based    *)
(***************************************************************************)
nodes ==
    <<"Total Responses", "Aware of Fair Fares", "Unaware of Fair Fares",
      "No Awareness Response", "Applied", "Did Not Apply", "No Application Response",
      "Accepted", "Rejected", "Pending", "No Acceptance Response",
      "Reduced Financial Burden", "No Reduction in Financial Burden",
      "No Financial Burden Response">>

Link(s, t, v) == [source |-> s, target |-> t, value |-> v]

\* the link list with the residual link of the Aware node fed by the wrong key
links_wrong_key(sd) ==
    <<Link(0, 1, sd.aware_count),
      Link(0, 2, sd.unaware_count),
      Link(0, 3, sd.no_awareness_response),
      Link(1, 4, sd.applied_count),
      Link(1, 5, sd.not_applied_count),
      Link(1, 6, sd.no_awareness_response),
      Link(4, 7, sd.accepted_count),
      Link(4, 8, sd.rejected_count),
      Link(4, 9, sd.pending_count),
      Link(4, 10, sd.no_acceptance_response),
      Link(7, 11, sd.reduced_burden_count),
      Link(7, 12, sd.not_reduced_burden_count),
      Link(7, 13, sd.no_burden_response)>>

\* the link list with the weights of the Accepted and Rejected links exchanged
links_swapped_weights(sd) ==
    <<Link(0, 1, sd.aware_count),
      Link(0, 2, sd.unaware_count),
      Link(0, 3, sd.no_awareness_response),
      Link(1, 4, sd.applied_count),
      Link(1, 5, sd.not_applied_count),
      Link(1, 6, sd.no_application_response),
      Link(4, 7, sd.rejected_count),
      Link(4, 8, sd.accepted_count),
      Link(4, 9, sd.pending_count),
      Link(4, 10, sd.no_acceptance_response),
      Link(7, 11, sd.reduced_burden_count),
      Link(7, 12, sd.not_reduced_burden_count),
      Link(7, 13, sd.no_burden_response)>>

links(sd) ==
    <<Link(0, 1, sd.aware_count),
      Link(0, 2, sd.unaware_count),
      Link(0, 3, sd.no_awareness_response),
      Link(1, 4, sd.applied_count),
      Link(1, 5, sd.not_applied_count),
      Link(1, 6, sd.no_application_response),
      Link(4, 7, sd.accepted_count),
      Link(4, 8, sd.rejected_count),
      Link(4, 9, sd.pending_count),
      Link(4, 10, sd.no_acceptance_response),
      Link(7, 11, sd.reduced_burden_count),
      Link(7, 12, sd.not_reduced_burden_count),
      Link(7, 13, sd.no_burden_response)>>

Figure(sd) == [kind |-> "figure", nodes |-> nodes, links |-> links(sd)]

\* fair_fares_sankey.py create_sankey_diagram(sankey_data)
script_create_sankey_diagram(sd) ==
    IF sd = None THEN None ELSE Figure(sd.data)

\* the legend text of the animation frames looks up
\* sankey_data[label.lower().replace(' ', '_') + '_count'] for every node
\* label; the first label gives 'total_responses_count', which is no key
SankeyKeys ==
    {"total_responses", "aware_count", "unaware_count", "no_awareness_response",
     "applied_count", "not_applied_count", "no_application_response",
     "accepted_count", "rejected_count", "pending_count", "no_acceptance_response",
     "reduced_burden_count", "not_reduced_burden_count", "no_burden_response"}

legend_key(i) ==
    CASE i = 1 -> "total_responses_count"
      [] i = 2 -> "aware_of_fair_fares_count"
      [] i = 3 -> "unaware_of_fair_fares_count"
      [] i = 4 -> "no_awareness_response_count"
      [] i = 5 -> "applied_count"
      [] i = 6 -> "did_not_apply_count"
      [] i = 7 -> "no_application_response_count"
      [] i = 8 -> "accepted_count"
      [] i = 9 -> "rejected_count"
      [] i = 10 -> "pending_count"
      [] i = 11 -> "no_acceptance_response_count"
      [] i = 12 -> "reduced_financial_burden_count"
      [] i = 13 -> "no_reduction_in_financial_burden_count"
      [] i = 14 -> "no_financial_burden_response_count"

legend_keys_found == \A i \in DOMAIN nodes : legend_key(i) \in SankeyKeys

\* visualization.py create_sankey_diagram(sankey_data=None)
viz_create_sankey_diagram(d) ==
    LET sd == viz_extract_sankey_data(d)
    IN  IF sd = None THEN None
        ELSE IF ~legend_keys_found THEN [kind |-> "KeyError"]
        ELSE Figure(sd.data)

\* visualization.py save_sankey_diagram(fig, output_file): TRUE when the file is written
save_sankey_diagram(f) == f # None

(***************************************************************************)
(* The two programs.  fair_fares_sankey.py: the import-time file check,    *)
(* then main().  fair-fares/run_analysis.py: main(), with the four         *)
(* analyses of run_all_analyses as its steps.                              *)
(***************************************************************************)
Init ==
    /\ prog \in {"fair_fares_sankey", "run_analysis"}
    /\ IsFile(file)
    /\ df = None
    /\ pc = "main"
    /\ call = "none"
    /\ ret = None
    /\ analysis_results = <<>>
    /\ sankey_data = None
    /\ fig = None
    /\ html = FALSE
    /\ column_indices = initial_column_indices

\* results[stage] = stage_results, only "if stage_results:"
record(results, stage, value) == IF value # None THEN results @@ (stage :> value) ELSE results

\* run_analysis.py main: return when the file does not exist, else construct
\* the loader (whose constructor calls load_data) and the analyzer
RunAnalysisMain ==
    /\ prog = "run_analysis" /\ pc = "main"
    /\ IF file.state = "missing"
       THEN pc' = "done" /\ df' = df
       ELSE pc' = "analyze_awareness" /\ df' = load_data(file)
    /\ UNCHANGED <<column_indices, prog, file, call, ret, analysis_results, sankey_data, fig, html>>

AnalyzeStep(stage, name, next) ==
    /\ prog = "run_analysis" /\ pc = name
    /\ call' = name
    /\ ret' = analyze(stage, df)
    /\ analysis_results' = record(analysis_results, stage, analyze(stage, df))
    /\ pc' = next
    /\ UNCHANGED <<column_indices, prog, file, df, sankey_data, fig, html>>

AnalyzeAwareness == AnalyzeStep("awareness", "analyze_awareness", "analyze_application_rates")

AnalyzeApplicationRates ==
    AnalyzeStep("application", "analyze_application_rates", "analyze_acceptance_rates")

AnalyzeAcceptanceRates ==
    AnalyzeStep("acceptance", "analyze_acceptance_rates", "analyze_financial_burden_reduction")

\* the last analysis: run_all_analyses returns and main goes on to
\* visualizer.create_sankey_diagram()
AnalyzeFinancialBurdenReduction ==
    AnalyzeStep("financial_burden", "analyze_financial_burden_reduction", "viz_extract_sankey_data")

\* create_sankey_diagram(sankey_data=None) first calls self.extract_sankey_data()
VizExtractSankeyData ==
    /\ prog = "run_analysis" /\ pc = "viz_extract_sankey_data"
    /\ call' = "viz_extract_sankey_data"
    /\ ret' = viz_extract_sankey_data(df)
    /\ sankey_data' = viz_extract_sankey_data(df)
    /\ pc' = "viz_create_sankey_diagram"
    /\ UNCHANGED <<column_indices, prog, file, df, analysis_results, fig, html>>

\* the rest of create_sankey_diagram: an exception leaves main
VizCreateSankeyDiagram ==
    /\ prog = "run_analysis" /\ pc = "viz_create_sankey_diagram"
    /\ call' = "viz_create_sankey_diagram"
    /\ ret' = viz_create_sankey_diagram(df)
    /\ IF viz_create_sankey_diagram(df).kind = "KeyError"
       THEN pc' = "raised" /\ fig' = fig
       ELSE pc' = "save_sankey_diagram" /\ fig' = viz_create_sankey_diagram(df)
    /\ UNCHANGED <<column_indices, prog, file, df, analysis_results, sankey_data, html>>

SaveSankeyDiagram ==
    /\ prog = "run_analysis" /\ pc = "save_sankey_diagram"
    /\ call' = "save_sankey_diagram"
    /\ ret' = None
    /\ html' = save_sankey_diagram(fig)
    /\ pc' = "done"
    /\ UNCHANGED <<column_indices, prog, file, df, analysis_results, sankey_data, fig>>

\* fair_fares_sankey.py: exit(1) at import when the file does not exist
ScriptImport ==
    /\ prog = "fair_fares_sankey" /\ pc = "main"
    /\ pc' = IF file.state = "missing" THEN "exit" ELSE "script_extract_sankey_data"
    /\ UNCHANGED <<column_indices, prog, file, df, call, ret, analysis_results, sankey_data, fig, html>>

ScriptExtractSankeyData ==
    /\ prog = "fair_fares_sankey" /\ pc = "script_extract_sankey_data"
    /\ call' = "script_extract_sankey_data"
    /\ ret' = script_extract_sankey_data(file)
    /\ sankey_data' = script_extract_sankey_data(file)
    /\ pc' = IF script_extract_sankey_data(file) # None THEN "script_create_sankey_diagram" ELSE "done"
    /\ UNCHANGED <<column_indices, prog, file, df, analysis_results, fig, html>>

ScriptCreateSankeyDiagram ==
    /\ prog = "fair_fares_sankey" /\ pc = "script_create_sankey_diagram"
    /\ call' = "script_create_sankey_diagram"
    /\ ret' = script_create_sankey_diagram(sankey_data)
    /\ fig' = script_create_sankey_diagram(sankey_data)
    /\ pc' = IF script_create_sankey_diagram(sankey_data) # None THEN "write_html" ELSE "done"
    /\ UNCHANGED <<column_indices, prog, file, df, analysis_results, sankey_data, html>>

ScriptWriteHtml ==
    /\ prog = "fair_fares_sankey" /\ pc = "write_html"
    /\ html' = TRUE
    /\ pc' = "done"
    /\ UNCHANGED <<column_indices, prog, file, df, call, ret, analysis_results, sankey_data, fig>>

Next ==
    \/ RunAnalysisMain
    \/ AnalyzeAwareness
    \/ AnalyzeApplicationRates
    \/ AnalyzeAcceptanceRates
    \/ AnalyzeFinancialBurdenReduction
    \/ VizExtractSankeyData
    \/ VizCreateSankeyDiagram
    \/ SaveSankeyDiagram
    \/ ScriptImport
    \/ ScriptExtractSankeyData
    \/ ScriptCreateSankeyDiagram
    \/ ScriptWriteHtml

Spec == Init /\ [][Next]_vars

(***************************************************************************)
(* fair_fares_report.py: the awareness report.  The sheet is read with its *)
(* first row as the header, and the columns are found by their names: a    *)
(* column name is the sequence of its characters.                          *)
(***************************************************************************)
UpperCase ==
    <<"A", "B", "C", "D", "E", "F", "G", "H", "I", "J", "K", "L", "M",
      "N", "O", "P", "Q", "R", "S", "T", "U", "V", "W", "X", "Y", "Z">>

LowerCase ==
    <<"a", "b", "c", "d", "e", "f", "g", "h", "i", "j", "k", "l", "m",
      "n", "o", "p", "q", "r", "s", "t", "u", "v", "w", "x", "y", "z">>

lower_char(ch) ==
    IF \E i \in DOMAIN UpperCase : UpperCase[i] = ch
    THEN LowerCase[CHOOSE i \in DOMAIN UpperCase : UpperCase[i] = ch]
    ELSE ch

\* col.lower()
lower(name) == [i \in DOMAIN name |-> lower_char(name[i])]

\* needle in text
in_str(needle, text) ==
    \E i \in 0..(Len(text) - Len(needle)) : SubSeq(text, i + 1, i + Len(needle)) = needle

\* 'fair fare' and 'aware'
fair_fare == <<"f", "a", "i", "r", " ", "f", "a", "r", "e">>
aware == <<"a", "w", "a", "r", "e">>

\* the column names of the report's inputs: "Aware of Fair Fares",
\* "Fair Fare use", "Unaware" and "Name"
ReportNames ==
    {<<"A", "w", "a", "r", "e", " ", "o", "f", " ", "F", "a", "i", "r", " ",
       "F", "a", "r", "e", "s">>,
     <<"F", "a", "i", "r", " ", "F", "a", "r", "e", " ", "u", "s", "e">>,
     <<"U", "n", "a", "w", "a", "r", "e">>,
     <<"N", "a", "m", "e">>}

ReportCells == {Str("Yes"), Str("No"), Str("Maybe"), NaN}

ReportColCounts == {1, 2}

\* pandas keeps column names distinct
DistinctNames(names) == \A i, j \in DOMAIN names : names[i] = names[j] => i = j

IsReportFile(f) ==
    \/ f = [state |-> "missing"]
    \/ f = [state |-> "unreadable"]
    \/ \E k \in ReportColCounts, n \in 0..MaxRows :
          \E names \in [1..k -> ReportNames], rows \in [1..n -> [1..k -> ReportCells]] :
              /\ DistinctNames(names)
              /\ f = [state |-> "ok", sheet |-> [ncols |-> k, names |-> names, rows |-> rows]]

\* [col for col in df.columns if 'fair fare' in col.lower()], as column positions
fair_fares_columns(d) ==
    SelectSeq([c \in 1..d.ncols |-> c], LAMBDA c : in_str(fair_fare, lower(d.names[c])))

\* a summary broken off by the division: the heading and
\* 'Total respondents: 0' are out, the two percentage lines are not
ZeroDivisionError == [kind |-> "ZeroDivisionError", total_responses |-> 0]

\* the awareness summary: 'Total respondents' is written first, then
\* aware_count / total_responses raises when no cell is 'Yes' or 'No'
report_summary(d, c) ==
    LET aware_count == len(filter_eq(d, c, Str("Yes")))
        not_aware_count == len(filter_eq(d, c, Str("No")))
        total_responses == aware_count + not_aware_count
    IN  IF total_responses = 0 THEN ZeroDivisionError
        ELSE [kind |-> "summary",
              total_responses |-> total_responses,
              aware_count |-> aware_count,
              aware_percentage |-> [num |-> aware_count * 100, den |-> total_responses],
              not_aware_count |-> not_aware_count,
              not_aware_percentage |-> [num |-> not_aware_count * 100, den |-> total_responses]]

\* what the loop writes for one column: the response counts and, for a
\* column whose name holds 'aware', the summary
report_section(d, c) ==
    [column |-> c,
     counts |-> value_counts(column(d, c)),
     summary |-> IF in_str(aware, lower(d.names[c])) THEN report_summary(d, c) ELSE None]

\* "for col in fair_fares_columns": the sections written, up to and with
\* the column whose summary raises: its counts, percentages and pie-chart
\* line and the start of its summary are in the file when line 83 raises
RECURSIVE write_report(_, _)
write_report(d, cols) ==
    IF cols = <<>> THEN [raised |-> FALSE, sections |-> <<>>]
    ELSE LET section == report_section(d, Head(cols))
         IN  IF section.summary = ZeroDivisionError
             THEN [raised |-> TRUE, sections |-> <<section>>]
             ELSE LET rest == write_report(d, Tail(cols))
                  IN  [raised |-> rest.raised, sections |-> <<section>> \o rest.sections]

\* next((col for col in df.columns if 'aware' in col.lower() and
\* 'fair fare' in col.lower()), None), as a column position
awareness_col(d) ==
    LET found == SelectSeq(fair_fares_columns(d),
                           LAMBDA c : in_str(aware, lower(d.names[c])))
    IN  IF found = <<>> THEN None ELSE [kind |-> "column", index |-> Head(found)]

\* the summary printed to the console
console_summary(d) ==
    IF awareness_col(d) = None THEN None ELSE report_summary(d, awareness_col(d).index)

InitReport ==
    /\ prog = "fair_fares_report"
    /\ IsReportFile(file)
    /\ df = None
    /\ pc = "main"
    /\ call = "none"
    /\ ret = None
    /\ analysis_results = <<>>
    /\ sankey_data = None
    /\ fig = None
    /\ html = FALSE
    /\ column_indices = initial_column_indices

\* exit(1) at import when the file does not exist
ReportImport ==
    /\ prog = "fair_fares_report" /\ pc = "main"
    /\ pc' = IF file.state = "missing" THEN "exit" ELSE "read_excel"
    /\ UNCHANGED <<column_indices, prog, file, df, call, ret, analysis_results, sankey_data, fig, html>>

\* df = pd.read_excel(excel_file); an exception is printed by the handler
ReportReadExcel ==
    /\ prog = "fair_fares_report" /\ pc = "read_excel"
    /\ call' = "read_excel"
    /\ df' = load_data(file)
    /\ pc' = IF file.state = "ok" THEN "write_report" ELSE "error"
    /\ UNCHANGED <<column_indices, prog, file, ret, analysis_results, sankey_data, fig, html>>

\* the "with open(report_file, 'w')" block
ReportWrite ==
    /\ prog = "fair_fares_report" /\ pc = "write_report"
    /\ call' = "write_report"
    /\ ret' = write_report(df, fair_fares_columns(df))
    /\ pc' = IF write_report(df, fair_fares_columns(df)).raised THEN "error"
             ELSE "console_summary"
    /\ UNCHANGED <<column_indices, prog, file, df, analysis_results, sankey_data, fig, html>>

ReportConsoleSummary ==
    /\ prog = "fair_fares_report" /\ pc = "console_summary"
    /\ call' = "console_summary"
    /\ ret' = console_summary(df)
    /\ pc' = IF console_summary(df) = ZeroDivisionError THEN "error" ELSE "done"
    /\ UNCHANGED <<column_indices, prog, file, df, analysis_results, sankey_data, fig, html>>

NextReport ==
    \/ ReportImport
    \/ ReportReadExcel
    \/ ReportWrite
    \/ ReportConsoleSummary

SpecReport == InitReport /\ [][NextReport]_vars

(***************************************************************************)
(* The two programs on sheets whose answers differ from the named          *)
(* categories by case or by surrounding whitespace.                        *)
(***************************************************************************)
ExactCells(c) ==
    CASE c = 28 -> {Str("Yes"), Str("yes"), Str("No")}
      [] c = 29 -> {Str("Yes"), Str(" Yes"), Str("No")}
      [] c = 30 -> {Str("Accepted"), Str("ACCEPTED"), Str("Pending ")}
      [] c = 31 -> {Str("Yes"), Str("no")}

ExactRows ==
    {r \in [FunnelCols -> UNION {ExactCells(c) : c \in FunnelCols}] :
        \A c \in FunnelCols : r[c] \in ExactCells(c)}

IsExactFile(f) ==
    \/ f = [state |-> "missing"]
    \/ f = [state |-> "unreadable"]
    \/ \E n \in 0..MaxRows :
          \E rows \in [1..n -> ExactRows] :
              f = [state |-> "ok", sheet |-> [ncols |-> 32, rows |-> rows]]

InitExact ==
    /\ prog \in {"fair_fares_sankey", "run_analysis"}
    /\ IsExactFile(file)
    /\ df = None
    /\ pc = "main"
    /\ call = "none"
    /\ ret = None
    /\ analysis_results = <<>>
    /\ sankey_data = None
    /\ fig = None
    /\ html = FALSE
    /\ column_indices = initial_column_indices

SpecExact == InitExact /\ [][Next]_vars

(***************************************************************************)
(* The classes used directly: a loader, an analyzer and a visualizer are   *)
(* constructed on a spreadsheet, then the four analyses, run_all_analyses  *)
(* and extract_sankey_data are called in any order, any number of times.   *)
(* Here pc counts the calls of run_all_analyses and of extract_sankey_data *)
(* (0, 1, or 2 for more than one).                                         *)
(***************************************************************************)
MaxSessionRows == 1

IsSessionFile(f) ==
    \/ f = [state |-> "missing"]
    \/ f = [state |-> "unreadable"]
    \/ \E k \in ColCounts, n \in 0..MaxSessionRows :
          \E codes \in [1..n -> RowCodes(k)] :
              /\ InRowOrder(codes)
              /\ f = [state |-> "ok", sheet |-> Sheet(k, codes)]

\* FairFaresDataLoader(), FairFaresAnalyzer(loader), FairFaresVisualizer(analyzer)
InitSession ==
    /\ prog = "session"
    /\ IsSessionFile(file)
    /\ df = load_data(file)
    /\ pc = [run_all_analyses |-> 0, extract_sankey_data |-> 0]
    /\ call = "none"
    /\ ret = None
    /\ analysis_results = <<>>
    /\ sankey_data = None
    /\ fig = None
    /\ html = FALSE
    /\ column_indices = initial_column_indices

called(n) == IF n < 2 THEN n + 1 ELSE n

\* the blank cells of a column overwritten in place, as
\* df[column].fillna(value, inplace=True) would
fillna(d, c, value) ==
    [d EXCEPT !.rows = [i \in DOMAIN d.rows |->
                            [d.rows[i] EXCEPT ![c] = IF isna(@) THEN value ELSE @]]]

\* analyze_awareness writing 'No response' into the blank cells of the sheet
SessionAnalyzeAwarenessFillingBlanks ==
    /\ prog = "session"
    /\ call' = "analyze_awareness"
    /\ ret' = analyze_awareness(df)
    /\ df' = IF get_awareness_column(df) = None THEN df
             ELSE fillna(df, get_awareness_column(df).index, Str("No response"))
    /\ UNCHANGED <<column_indices, prog, file, pc, analysis_results, sankey_data, fig, html>>

\* run_all_analyses adding its totals to those of the call before
SessionRunAllAnalysesAccumulating ==
    /\ prog = "session"
    /\ call' = "run_all_analyses"
    /\ LET new == run_all_analyses(df)
           results == IF pc.run_all_analyses = 0 THEN new
                      ELSE [s \in DOMAIN new |->
                               [new[s] EXCEPT !.total = @ + analysis_results[s].total]]
       IN  ret' = results /\ analysis_results' = results
    /\ pc' = [pc EXCEPT !.run_all_analyses = called(@)]
    /\ UNCHANGED <<column_indices, prog, file, df, sankey_data, fig, html>>

\* one of the analyze_* methods: it reads self.df and returns its result
SessionAnalyze(stage, name) ==
    /\ prog = "session"
    /\ call' = name
    /\ ret' = analyze(stage, df)
    /\ UNCHANGED <<column_indices, prog, file, df, pc, analysis_results, sankey_data, fig, html>>

SessionAnalyzeAwareness == SessionAnalyze("awareness", "analyze_awareness")

SessionAnalyzeApplicationRates == SessionAnalyze("application", "analyze_application_rates")

SessionAnalyzeAcceptanceRates == SessionAnalyze("acceptance", "analyze_acceptance_rates")

SessionAnalyzeFinancialBurdenReduction ==
    SessionAnalyze("financial_burden", "analyze_financial_burden_reduction")

SessionRunAllAnalyses ==
    /\ prog = "session"
    /\ call' = "run_all_analyses"
    /\ LET results == run_all_analyses(df)
       IN  ret' = results /\ analysis_results' = results
    /\ pc' = [pc EXCEPT !.run_all_analyses = called(@)]
    /\ UNCHANGED <<column_indices, prog, file, df, sankey_data, fig, html>>

SessionExtractSankeyData ==
    /\ prog = "session"
    /\ call' = "viz_extract_sankey_data"
    /\ LET data == viz_extract_sankey_data(df)
       IN  ret' = data /\ sankey_data' = data
    /\ pc' = [pc EXCEPT !.extract_sankey_data = called(@)]
    /\ UNCHANGED <<column_indices, prog, file, df, analysis_results, fig, html>>

NextSession ==
    \/ SessionAnalyzeAwareness
    \/ SessionAnalyzeApplicationRates
    \/ SessionAnalyzeAcceptanceRates
    \/ SessionAnalyzeFinancialBurdenReduction
    \/ SessionRunAllAnalyses
    \/ SessionExtractSankeyData

SpecSession == InitSession /\ [][NextSession]_vars

(***************************************************************************)
(* analyzePoll/extractData.py: extract_column_data(file_path, column_name, *)
(* skiprowcount) on a sheet of one column.  Here prog holds the arguments  *)
(* of the call.                                                            *)
(***************************************************************************)
MaxColumnLen == 3

MaxSkip == 2

ColumnCells == {Str("a"), Str("b"), NaN}

IsColumnFile(f) ==
    \/ f = [state |-> "missing"]
    \/ \E n \in 0..MaxColumnLen, name \in ReportNames :
          \E rows \in [1..n -> [{1} -> ColumnCells]] :
              f = [state |-> "ok",
                   sheet |-> [ncols |-> 1, names |-> <<name>>, rows |-> rows]]

\* Series.dropna()
dropna(col) == SelectSeq(col, LAMBDA v : ~isna(v))

\* list[k:], k >= 0
slice_from(list, k) == SubSeq(list, k + 1, Len(list))

\* the positions of the columns of that name: column_name in df.columns
columns_named(d, column_name) == {c \in 1..d.ncols : d.names[c] = column_name}

\* pd.read_excel raises when the file is missing; nothing catches it; a
\* name that is no column gives the text f"Column '{column_name}' not found.",
\* spelt, like the names, character by character
extract_column_data(f, column_name, skiprowcount) ==
    IF f.state # "ok" THEN [kind |-> "FileNotFoundError"]
    ELSE IF columns_named(f.sheet, column_name) # {}
         THEN LET c == CHOOSE c \in columns_named(f.sheet, column_name) : TRUE
              IN  [kind |-> "list",
                   values |-> slice_from(dropna(column(f.sheet, c)), skiprowcount)]
         ELSE [kind |-> "str",
               message |-> <<"C", "o", "l", "u", "m", "n", " ", "'">> \o column_name
                               \o <<"'", " ", "n", "o", "t", " ", "f", "o", "u", "n", "d", ".">>]

InitExtract ==
    /\ \E name \in ReportNames, k \in 0..MaxSkip :
          prog = [name |-> "extract_column_data", column_name |-> name, skiprowcount |-> k]
    /\ IsColumnFile(file)
    /\ df = None
    /\ pc = "main"
    /\ call = "none"
    /\ ret = None
    /\ analysis_results = <<>>
    /\ sankey_data = None
    /\ fig = None
    /\ html = FALSE
    /\ column_indices = initial_column_indices

ExtractColumnData ==
    /\ pc = "main"
    /\ call' = "extract_column_data"
    /\ df' = load_data(file)
    /\ ret' = extract_column_data(file, prog.column_name, prog.skiprowcount)
    /\ pc' = "done"
    /\ UNCHANGED <<column_indices, prog, file, analysis_results, sankey_data, fig, html>>

NextExtract == ExtractColumnData

SpecExtract == InitExtract /\ [][NextExtract]_vars

(***************************************************************************)
(* utils.py: the ridership tables.  A dataset is a sequence of rows        *)
(* [id, Year, Month, Day, Ridership]: 'Destination Station Complex ID',    *)
(* 'Year', 'Month', 'Day of Week' and 'Estimated Average Ridership'.       *)
(* Ridership amounts are whole numbers, which the sums add exactly.        *)
(***************************************************************************)
MaxRides == 2

\* for year in [2021, 2022, 2023, 2024]
ridership_years == <<2021, 2022, 2023, 2024>>

\* for day in ["Monday", ..., "Sunday"]
week_days == <<"Monday", "Tuesday", "Wednesday", "Thursday", "Friday", "Saturday", "Sunday">>

RideRows ==
    [id : {135, 611}, Year : {2021, 2024}, Month : {1, 12},
     Day : {"Monday", "Sunday"}, Ridership : {1, 2}]

\* the rows of a dataset come in the order of a fixed enumeration of the
\* rows: one dataset for each multiset of rows
InRideOrder(d) ==
    LET RideCode(r) ==
            (((((IF r.id = 135 THEN 0 ELSE 1) * 2 + (IF r.Year = 2021 THEN 0 ELSE 1)) * 2
                + (IF r.Month = 1 THEN 0 ELSE 1)) * 2
                + (IF r.Day = "Monday" THEN 0 ELSE 1)) * 2) + r.Ridership
    IN  \A i \in DOMAIN d : \A j \in DOMAIN d : i < j => RideCode(d[i]) <= RideCode(d[j])

\* dataset[dataset["Destination Station Complex ID"] == station_id]
average_ridership(station_id, dataset) ==
    SelectSeq(dataset, LAMBDA r : r.id = station_id)

\* series.sum() over a sequence of records' 'Ridership'
RECURSIVE ridership_sum(_)
ridership_sum(rows) ==
    IF rows = <<>> THEN 0 ELSE rows[1].Ridership + ridership_sum(Tail(rows))

\* average_ridership[(Year == year) & (Month == month) & (Day of Week == day)]
\*     ["Estimated Average Ridership"].sum()
amount(ar, year, month, day) ==
    ridership_sum(SelectSeq(ar, LAMBDA r : r.Year = year /\ r.Month = month /\ r.Day = day))

\* the amount as it stands, not scaled to the four weeks of a month
adjusted_amount_unscaled(ar, year, month, day) == amount(ar, year, month, day)

\* adjusted_amount = amount * 4
adjusted_amount(ar, year, month, day) == amount(ar, year, month, day) * 4

\* data.append({"Year": ..., "Month": ..., "DayOfWeek": ..., "Ridership": ...})
Record(year, month, day, ridership) ==
    [Year |-> year, Month |-> month, DayOfWeek |-> day, Ridership |-> ridership]

\* the seven records one month's inner loop appends
day_records(ar, year, month) ==
    [i \in 1..7 |-> Record(year, Num(month), week_days[i],
                           adjusted_amount(ar, year, month, week_days[i]))]

\* monthly_ridership after the inner loop: 0 plus each adjusted amount
RECURSIVE monthly_ridership_upto(_, _, _, _)
monthly_ridership_upto(ar, year, month, i) ==
    IF i = 0 THEN 0
    ELSE monthly_ridership_upto(ar, year, month, i - 1)
             + adjusted_amount(ar, year, month, week_days[i])

\* yearly_ridership after m months: 0 plus each monthly total
RECURSIVE yearly_ridership_upto(_, _, _)
yearly_ridership_upto(ar, year, m) ==
    IF m = 0 THEN 0
    ELSE yearly_ridership_upto(ar, year, m - 1) + monthly_ridership_upto(ar, year, m, 7)

\* yearly_ridership never set back to 0: the earlier years are carried along
RECURSIVE yearly_ridership_carried(_, _)
yearly_ridership_carried(ar, year) ==
    IF year < 2021 THEN 0
    ELSE yearly_ridership_carried(ar, year - 1) + yearly_ridership_upto(ar, year, 12)

yearly_ridership(ar, year) == yearly_ridership_upto(ar, year, 12)

\* the records appended by the months 1..m of a year
RECURSIVE month_records_upto(_, _, _)
month_records_upto(ar, year, m) ==
    IF m = 0 THEN <<>>
    ELSE month_records_upto(ar, year, m - 1)
             \o day_records(ar, year, m)
             \o << Record(year, Num(m), "Total", monthly_ridership_upto(ar, year, m, 7)) >>

\* the records one iteration of the outer loop appends
year_records(ar, year) ==
    month_records_upto(ar, year, 12)
        \o << Record(year, Str("Total"), "Total", yearly_ridership(ar, year)) >>

average_ridership_df(station_id, dataset) ==
    LET ar == average_ridership(station_id, dataset)
    IN  year_records(ar, ridership_years[1]) \o year_records(ar, ridership_years[2])
            \o year_records(ar, ridership_years[3]) \o year_records(ar, ridership_years[4])

\* file.write(f"{label}: {value}\n")
Line(label, value) == label \o ": " \o ToString(value)

\* monthly_ridership += amount, the amount not scaled to four weeks
RECURSIVE info_monthly_ridership_unscaled(_, _, _, _)
info_monthly_ridership_unscaled(ar, year, month, i) ==
    IF i = 0 THEN 0
    ELSE info_monthly_ridership_unscaled(ar, year, month, i - 1)
             + amount(ar, year, month, week_days[i])

\* monthly_ridership += amount * 4, over the first i days
RECURSIVE info_monthly_ridership(_, _, _, _)
info_monthly_ridership(ar, year, month, i) ==
    IF i = 0 THEN 0
    ELSE info_monthly_ridership(ar, year, month, i - 1)
             + amount(ar, year, month, week_days[i]) * 4

\* yearly_ridership += monthly_ridership, over the first m months
RECURSIVE info_yearly_ridership(_, _, _)
info_yearly_ridership(ar, year, m) ==
    IF m = 0 THEN 0
    ELSE info_yearly_ridership(ar, year, m - 1) + info_monthly_ridership(ar, year, m, 7)

\* the lines one month writes
info_month_lines(ar, year, month) ==
    << Line("Month", month) >>
        \o [i \in 1..7 |-> Line(week_days[i], amount(ar, year, month, week_days[i]) * 4)]
        \o << Line("All Ridership in Month", info_monthly_ridership(ar, year, month, 7)) >>

RECURSIVE info_months_upto(_, _, _)
info_months_upto(ar, year, m) ==
    IF m = 0 THEN <<>>
    ELSE info_months_upto(ar, year, m - 1) \o info_month_lines(ar, year, m)

\* the lines one year writes
info_year_lines(ar, year) ==
    << Line("Year", year) >>
        \o info_months_upto(ar, year, 12)
        \o << Line("All Ridership in Year", info_yearly_ridership(ar, year, 12)) >>

\* total_ridership_four_years after the years up to the i-th
RECURSIVE total_ridership_four_years(_, _)
total_ridership_four_years(ar, i) ==
    IF i = 0 THEN 0
    ELSE total_ridership_four_years(ar, i - 1)
             + info_yearly_ridership(ar, ridership_years[i], 12)

\* the lines written to output_file
average_ridership_info(station_id, dataset) ==
    LET ar == average_ridership(station_id, dataset)
    IN  info_year_lines(ar, ridership_years[1]) \o info_year_lines(ar, ridership_years[2])
            \o info_year_lines(ar, ridership_years[3]) \o info_year_lines(ar, ridership_years[4])
            \o << Line("All Ridership in Four Years", total_ridership_four_years(ar, 4)) >>

\* df[df["DayOfWeek"] != "Total"].groupby("Year")["Ridership"].sum()
plot_yearly_ridership(d) ==
    LET df_filtered == SelectSeq(d, LAMBDA r : r.DayOfWeek # "Total")
        Years == { df_filtered[i].Year : i \in DOMAIN df_filtered }
    IN  [year \in Years |-> ridership_sum(SelectSeq(df_filtered, LAMBDA r : r.Year = year))]

\* the bar compare_annual_ridership draws for one station's table
compare_annual_ridership(year, d) ==
    LET df_filtered == SelectSeq(d, LAMBDA r : /\ r.Year = year
                                               /\ r.Month = Str("Total")
                                               /\ r.DayOfWeek = "Total")
    IN  IF df_filtered # <<>> THEN df_filtered[1].Ridership ELSE 0

InitRidership ==
    /\ prog = [name |-> "average_ridership", station_id |-> 135]
    /\ \E n \in 0..MaxRides : \E d \in [1..n -> RideRows] :
          InRideOrder(d) /\ file = [kind |-> "dataset", rows |-> d]
    /\ df = None
    /\ pc = "main"
    /\ call = "none"
    /\ ret = None
    /\ analysis_results = <<>>
    /\ sankey_data = None
    /\ fig = None
    /\ html = FALSE
    /\ column_indices = initial_column_indices

AverageRidershipDf ==
    /\ pc = "main"
    /\ call' = "average_ridership_df"
    /\ df' = average_ridership_df(prog.station_id, file.rows)
    /\ pc' = "table"
    /\ UNCHANGED <<column_indices, prog, file, ret, analysis_results, sankey_data, fig, html>>

AverageRidershipInfo ==
    /\ pc = "table"
    /\ call' = "average_ridership_info"
    /\ ret' = average_ridership_info(prog.station_id, file.rows)
    /\ html' = TRUE
    /\ pc' = "written"
    /\ UNCHANGED <<column_indices, prog, file, df, analysis_results, sankey_data, fig>>

PlotYearlyRidership ==
    /\ pc = "written"
    /\ call' = "plot_yearly_ridership"
    /\ fig' = [kind |-> "bars", heights |-> plot_yearly_ridership(df)]
    /\ pc' = "plotted"
    /\ UNCHANGED <<column_indices, prog, file, df, ret, analysis_results, sankey_data, html>>

CompareAnnualRidership ==
    /\ pc = "plotted"
    /\ call' = "compare_annual_ridership"
    /\ \E year \in {2021, 2024, 2025} :
          analysis_results' = [year |-> year,
                               total_ridership |-> compare_annual_ridership(year, df)]
    /\ pc' = "done"
    /\ UNCHANGED <<column_indices, prog, file, df, ret, sankey_data, fig, html>>

NextRidership ==
    \/ AverageRidershipDf
    \/ AverageRidershipInfo
    \/ PlotYearlyRidership
    \/ CompareAnnualRidership

SpecRidership == InitRidership /\ [][NextRidership]_vars

(***************************************************************************)
(* utils.py and timelapse_dashboard.py: the busiest and the quietest       *)
(* destinations.  A row is [name, id, Ridership]: 'Destination Station     *)
(* Complex Name', 'Destination Station Complex ID' (with which the         *)
(* latitude and longitude go) and 'Estimated Average Ridership'.           *)
(***************************************************************************)
MaxTrips == 3
MaxTop == 2

TripRows == [name : {"Grand Central", "Times Sq"}, id : {610, 611}, Ridership : {1, 2}]

\* ridership_df.groupby(key)["Estimated Average Ridership"].sum()
\* keys[i] is the group key of the i-th row
groupby_sum(ridership_df, keys) ==
    [k \in { keys[i] : i \in DOMAIN ridership_df } |->
        LET group == { i \in DOMAIN ridership_df : keys[i] = k }
        IN  SumOver([i \in group |-> ridership_df[i].Ridership], group)]

\* the groups in the order of their sums whichever way is asked for
sort_values_ascending(sums, ascending) ==
    { s \in [1..Cardinality(DOMAIN sums) -> DOMAIN sums] :
        /\ \A i \in DOMAIN s : \A j \in DOMAIN s : i # j => s[i] # s[j]
        /\ \A i \in DOMAIN s : \A j \in DOMAIN s : i < j => sums[s[i]] <= sums[s[j]] }

\* .sort_values(ascending=...): the orders of the groups by their sums; groups
\* of equal sum come in an order the sort does not determine
sort_values(sums, ascending) ==
    { s \in [1..Cardinality(DOMAIN sums) -> DOMAIN sums] :
        /\ \A i \in DOMAIN s : \A j \in DOMAIN s : i # j => s[i] # s[j]
        /\ \A i \in DOMAIN s : \A j \in DOMAIN s :
              i < j => IF ascending THEN sums[s[i]] <= sums[s[j]]
                                    ELSE sums[s[i]] >= sums[s[j]] }

\* .head(n) of the sorted sums, n >= 0: the series a call may return
sorted_head(sums, ascending, n) ==
    { [i \in 1..(IF n < Len(s) THEN n ELSE Len(s)) |-> [key |-> s[i], sum |-> sums[s[i]]]] :
        s \in sort_values(sums, ascending) }

\* utils.top_station_destinations
top_station_destinations(ridership_df, top_n) ==
    sorted_head(groupby_sum(ridership_df, [i \in DOMAIN ridership_df |-> ridership_df[i].name]),
                FALSE, top_n)

\* utils.bottom_station_destinations
bottom_station_destinations(ridership_df, bottom_n) ==
    sorted_head(groupby_sum(ridership_df, [i \in DOMAIN ridership_df |-> ridership_df[i].name]),
                TRUE, bottom_n)

\* timelapse_dashboard.top_station_destinations
dashboard_top_station_destinations(ridership_df, top_n) ==
    sorted_head(groupby_sum(ridership_df, [i \in DOMAIN ridership_df |->
                                <<ridership_df[i].name, ridership_df[i].id>>]),
                FALSE, top_n)

InitDestinations ==
    /\ \E n \in 0..MaxTop : prog = [name |-> "station_destinations", n |-> n]
    /\ \E m \in 0..MaxTrips : \E d \in [1..m -> TripRows] :
          file = [kind |-> "dataset", rows |-> d]
    /\ df = None
    /\ pc = "main"
    /\ call = "none"
    /\ ret = None
    /\ analysis_results = <<>>
    /\ sankey_data = None
    /\ fig = None
    /\ html = FALSE
    /\ column_indices = initial_column_indices

TopStationDestinations ==
    /\ pc = "main"
    /\ call' = "top_station_destinations"
    /\ ret' \in top_station_destinations(file.rows, prog.n)
    /\ pc' = "done"
    /\ UNCHANGED <<column_indices, prog, file, df, analysis_results, sankey_data, fig, html>>

BottomStationDestinations ==
    /\ pc = "main"
    /\ call' = "bottom_station_destinations"
    /\ ret' \in bottom_station_destinations(file.rows, prog.n)
    /\ pc' = "done"
    /\ UNCHANGED <<column_indices, prog, file, df, analysis_results, sankey_data, fig, html>>

DashboardTopStationDestinations ==
    /\ pc = "main"
    /\ call' = "dashboard_top_station_destinations"
    /\ ret' \in dashboard_top_station_destinations(file.rows, prog.n)
    /\ pc' = "done"
    /\ UNCHANGED <<column_indices, prog, file, df, analysis_results, sankey_data, fig, html>>

NextDestinations ==
    \/ TopStationDestinations
    \/ BottomStationDestinations
    \/ DashboardTopStationDestinations

SpecDestinations == InitDestinations /\ [][NextDestinations]_vars

(***************************************************************************)
(* timelapse_dashboard.py: the play button and the timer.  The values of   *)
(* the hour slider, the day dropdown, the year slider and the month slider *)
(* are held in ret, as advance_time returns them; pc holds the Interval    *)
(* component, its disabled flag and its count of ticks.                    *)
(***************************************************************************)
MaxTicks == 8064

days == <<"Monday", "Tuesday", "Wednesday", "Thursday", "Friday", "Saturday", "Sunday">>

\* a tick that never takes the year back from 2024 to 2021
advance_time_year_unbounded(n, hour, day, year, month) ==
    LET day_index == (CHOOSE i \in DOMAIN days : days[i] = day) - 1
    IN  IF hour + 1 > 23
        THEN IF day_index + 1 >= Len(days)
             THEN IF month + 1 > 12
                  THEN <<0, days[1], year + 1, 1>>
                  ELSE <<0, days[1], year, month + 1>>
             ELSE <<0, days[day_index + 2], year, month>>
        ELSE <<hour + 1, day, year, month>>

\* a tick whose hour wraps without moving the day on
advance_time_hour_only(n, hour, day, year, month) ==
    <<(IF hour + 1 > 23 THEN 0 ELSE hour + 1), day, year, month>>

\* a tick whose month wraps without moving the year on
advance_time_year_kept(n, hour, day, year, month) ==
    LET day_index == (CHOOSE i \in DOMAIN days : days[i] = day) - 1
    IN  IF hour + 1 > 23
        THEN IF day_index + 1 >= Len(days)
             THEN IF month + 1 > 12
                  THEN <<0, days[1], year, 1>>
                  ELSE <<0, days[1], year, month + 1>>
             ELSE <<0, days[day_index + 2], year, month>>
        ELSE <<hour + 1, day, year, month>>

\* returns hour, days[day_index], year, month; day_index counts from 0
advance_time(n, hour, day, year, month) ==
    LET day_index == (CHOOSE i \in DOMAIN days : days[i] = day) - 1
    IN  IF hour + 1 > 23
        THEN IF day_index + 1 >= Len(days)
             THEN IF month + 1 > 12
                  THEN IF year + 1 > 2024
                       THEN <<0, days[1], 2021, 1>>
                       ELSE <<0, days[1], year + 1, 1>>
                  ELSE <<0, days[1], year, month + 1>>
             ELSE <<0, days[day_index + 2], year, month>>
        ELSE <<hour + 1, day, year, month>>

\* the page being loaded, the sliders as the layout sets them and the
\* callbacks' initial calls still to come; or the page loaded and paused
\* before the first tick, the sliders as the user has left them
InitTimelapse ==
    /\ \/ /\ ret = <<8, "Monday", 2021, 1>>
          /\ prog = [name |-> "timelapse_dashboard", start |-> ret, page |-> "loading"]
          /\ pc = [disabled |-> TRUE, n_intervals |-> 0, loaded |-> FALSE]
       \/ /\ ret \in { <<23, "Sunday", 2024, 12>>, <<13, "Thursday", 2022, 6>>,
                       <<0, "Monday", 2021, 1>>, <<23, "Saturday", 2023, 12>>,
                       <<0, "Sunday", 2024, 7>> }
          /\ prog = [name |-> "timelapse_dashboard", start |-> ret, page |-> "loaded"]
          /\ pc = [disabled |-> TRUE, n_intervals |-> 0, loaded |-> TRUE]
    /\ file = None
    /\ df = None
    /\ call = "none"
    /\ analysis_results = <<>>
    /\ sankey_data = None
    /\ fig = None
    /\ html = FALSE
    /\ column_indices = initial_column_indices

\* toggle_play: return not disabled; called when the page loads and at
\* every click of the button
TogglePlay ==
    /\ prog.name = "timelapse_dashboard"
    /\ call' = "toggle_play"
    /\ pc' = [pc EXCEPT !.disabled = ~pc.disabled]
    /\ UNCHANGED <<column_indices, prog, file, df, ret, analysis_results, sankey_data, fig, html>>

\* the initial call of advance_time, which Dash makes when the page loads
\* (the callback is registered without prevent_initial_call): the Interval
\* may be disabled, and n_intervals stays as it is
PageLoadAdvanceTime ==
    /\ prog.name = "timelapse_dashboard"
    /\ ~pc.loaded
    /\ call' = "advance_time"
    /\ pc' = [pc EXCEPT !.loaded = TRUE]
    /\ ret' = advance_time(pc.n_intervals, ret[1], ret[2], ret[3], ret[4])
    /\ UNCHANGED <<column_indices, prog, file, df, analysis_results, sankey_data, fig, html>>

\* a tick of the Interval, which fires only while it is enabled, the first
\* one 2000 ms after the page has loaded
AdvanceTime ==
    /\ prog.name = "timelapse_dashboard"
    /\ pc.loaded
    /\ ~pc.disabled
    /\ pc.n_intervals < MaxTicks
    /\ call' = "advance_time"
    /\ pc' = [pc EXCEPT !.n_intervals = pc.n_intervals + 1]
    /\ ret' = advance_time(pc.n_intervals + 1, ret[1], ret[2], ret[3], ret[4])
    /\ UNCHANGED <<column_indices, prog, file, df, analysis_results, sankey_data, fig, html>>

NextTimelapse == TogglePlay \/ PageLoadAdvanceTime \/ AdvanceTime

SpecTimelapse == InitTimelapse /\ [][NextTimelapse]_vars

(***************************************************************************)
(* The two programs on sheets whose answers include a literal              *)
(* 'No response' beside blank cells, and the number 1 beside the text '1'. *)
(***************************************************************************)
SameStringCells(c) ==
    CASE c = 28 -> {Str("Yes"), NaN, Str("No response")}
      [] c = 29 -> {Str("Yes"), Num(1), Str("1")}
      [] c = 30 -> {Str("Accepted"), NaN, Str("No response")}
      [] c = 31 -> {Str("Yes"), Num(1), Str("1")}

IsSameStringFile(f) ==
    \/ f = [state |-> "missing"]
    \/ f = [state |-> "unreadable"]
    \/ \E n \in 0..MaxRows :
          \E rows \in [1..n -> [FunnelCols -> UNION {SameStringCells(c) : c \in FunnelCols}]] :
              /\ \A i \in 1..n : \A c \in FunnelCols : rows[i][c] \in SameStringCells(c)
              /\ f = [state |-> "ok", sheet |-> [ncols |-> 32, rows |-> rows]]

InitSameString ==
    /\ prog \in {"fair_fares_sankey", "run_analysis"}
    /\ IsSameStringFile(file)
    /\ df = None
    /\ pc = "main"
    /\ call = "none"
    /\ ret = None
    /\ analysis_results = <<>>
    /\ sankey_data = None
    /\ fig = None
    /\ html = FALSE
    /\ column_indices = initial_column_indices

SpecSameString == InitSameString /\ [][Next]_vars

(***************************************************************************)
(* Reference counts, taken directly from the rows of the sheet.            *)
(***************************************************************************)
Yes == Str("Yes")
No == Str("No")
Accepted == Str("Accepted")

\* the row positions of sheet d whose cell in column c is one of vs
RowsWith(d, S, c, vs) == {i \in S : d.rows[i][c] \in vs}

AllRows(d) == DOMAIN d.rows

\* the eligible rows of each stage: those that passed every ancestor stage
AwareRows(d) == RowsWith(d, AllRows(d), 28, {Yes})
AppliedRows(d) == RowsWith(d, AwareRows(d), 29, {Yes})
AcceptedRows(d) == RowsWith(d, AppliedRows(d), 30, {Accepted})

\* the eligible rows whose answer is blank or outside the named categories
Uncoded(d, S, c, named) == {i \in S : d.rows[i][c] \notin named}

HasAllColumns(d) == d # None /\ d.ncols > 31

\* extract_sankey_data (either version) has just returned a dictionary
ScriptReturnedData == call = "script_extract_sankey_data" /\ ret.kind = "dict"
VizReturnedData == call = "viz_extract_sankey_data" /\ ret.kind = "dict"
ReturnedData == ScriptReturnedData \/ VizReturnedData

\* the sheet the returned dictionary was computed from
Source ==
    IF prog = "run_analysis" THEN df
    ELSE IF file.state = "ok" THEN file.sheet ELSE None

(***************************************************************************)
(* C1: for a sheet with all four funnel columns, the four residuals        *)
(* returned by extract_sankey_data (script and visualizer) are >= 0.       *)
(***************************************************************************)
C1_ResidualsNonNegative ==
    (ReturnedData /\ HasAllColumns(Source)) =>
        /\ ret.data.no_awareness_response >= 0
        /\ ret.data.no_application_response >= 0
        /\ ret.data.no_acceptance_response >= 0
        /\ ret.data.no_burden_response >= 0

ParentCount(stage, key) == count_of(results_of(analysis_results, stage), key)

(***************************************************************************)
(* C2: the total tabulated at a non-root stage equals the parent stage's   *)
(* count for its pass category: total_aware = awareness 'Yes',             *)
(* total_applied = application 'Yes', total_accepted = acceptance          *)
(* 'Accepted', the parent counts being those run_all_analyses recorded.    *)
(***************************************************************************)
C2_StageTotalIsParentPassCount ==
    /\ (call = "analyze_application_rates" /\ ret # None)
           => ret.total = ParentCount("awareness", "Yes")
    /\ (call = "analyze_acceptance_rates" /\ ret # None)
           => ret.total = ParentCount("application", "Yes")
    /\ (call = "analyze_financial_burden_reduction" /\ ret # None)
           => ret.total = ParentCount("acceptance", "Accepted")

NegativeResidual(data) ==
    \E k \in {"no_awareness_response", "no_application_response",
              "no_acceptance_response", "no_burden_response"} : data[k] < 0

(***************************************************************************)
(* C3: a negative residual is surfaced: no dictionary returned by          *)
(* extract_sankey_data holds a negative count, and no link of a figure     *)
(* returned by create_sankey_diagram has a negative weight.                *)
(***************************************************************************)
C3_NegativeResidualSurfaced ==
    /\ ReturnedData => ~NegativeResidual(ret.data)
    /\ fig.kind = "figure" => \A i \in DOMAIN fig.links : fig.links[i].value >= 0

(***************************************************************************)
(* C4: the application stage is tabulated on the rows with awareness       *)
(* 'Yes' only: applied, not-applied and residual count those rows whose    *)
(* application is 'Yes', 'No', anything else, and add up to aware_count;   *)
(* in the script and in analyze_application_rates.                         *)
(***************************************************************************)
C4_ApplicationStageOnAwareRows ==
    /\ ScriptReturnedData =>
          LET d == file.sheet
          IN  /\ ret.data.aware_count = Cardinality(AwareRows(d))
              /\ ret.data.applied_count = Cardinality(RowsWith(d, AwareRows(d), 29, {Yes}))
              /\ ret.data.not_applied_count = Cardinality(RowsWith(d, AwareRows(d), 29, {No}))
              /\ ret.data.no_application_response =
                     Cardinality(Uncoded(d, AwareRows(d), 29, {Yes, No}))
              /\ ret.data.applied_count + ret.data.not_applied_count
                     + ret.data.no_application_response = ret.data.aware_count
    /\ (call = "analyze_application_rates" /\ ret # None) =>
          /\ ret.total = Cardinality(AwareRows(df))
          /\ count_of(ret.results, "Yes") = Cardinality(RowsWith(df, AwareRows(df), 29, {Yes}))
          /\ count_of(ret.results, "No") = Cardinality(RowsWith(df, AwareRows(df), 29, {No}))
          /\ ret.total - (count_of(ret.results, "Yes") + count_of(ret.results, "No"))
                 = Cardinality(Uncoded(df, AwareRows(df), 29, {Yes, No}))

\* the ten-row scenario: total = 4, Yes = 2, No = 1, residual = 1, in both versions
C4_Witness ==
    \/ /\ ScriptReturnedData /\ file.sheet = ScenarioSheet
       /\ ret.data.aware_count = 4 /\ ret.data.applied_count = 2
       /\ ret.data.not_applied_count = 1 /\ ret.data.no_application_response = 1
    \/ /\ call = "analyze_application_rates" /\ df = ScenarioSheet /\ ret # None
       /\ ret.total = 4 /\ count_of(ret.results, "Yes") = 2
       /\ count_of(ret.results, "No") = 1 /\ count_of(ret.results, "No response") = 1

(***************************************************************************)
(* C5: at every stage the residual is the number of eligible rows (those   *)
(* that passed every ancestor stage) whose answer is blank or outside the  *)
(* stage's named categories.                                               *)
(***************************************************************************)
C5_ResidualCountsUncodedEligibleRows ==
    (ReturnedData /\ HasAllColumns(Source)) =>
        LET d == Source
        IN  /\ ret.data.no_awareness_response
                   = Cardinality(Uncoded(d, AllRows(d), 28, {Yes, No}))
            /\ ret.data.no_application_response
                   = Cardinality(Uncoded(d, AwareRows(d), 29, {Yes, No}))
            /\ ret.data.no_acceptance_response
                   = Cardinality(Uncoded(d, AppliedRows(d), 30,
                                         {Accepted, Str("Rejected"), Str("Pending")}))
            /\ ret.data.no_burden_response
                   = Cardinality(Uncoded(d, AcceptedRows(d), 31, {Yes, No}))

(***************************************************************************)
(* C6: the root total is the number of rows: total_responses of            *)
(* analyze_awareness and of the script's extract_sankey_data equal the row *)
(* count, and aware + unaware + no-awareness-response = total_responses.   *)
(***************************************************************************)
C6_RootTotalIsRowCount ==
    /\ (call = "analyze_awareness" /\ ret # None) => ret.total = Len(df.rows)
    /\ ScriptReturnedData =>
          /\ ret.data.total_responses = Len(file.sheet.rows)
          /\ ret.data.aware_count + ret.data.unaware_count
                 + ret.data.no_awareness_response = ret.data.total_responses

\* a sheet with a blank awareness cell among its rows, in both versions
C6_Witness ==
    \/ /\ call = "analyze_awareness" /\ ret # None /\ ret.total = 2
       /\ count_of(ret.results, "No response") = 1
    \/ /\ ScriptReturnedData /\ ret.data.total_responses = 2
       /\ ret.data.no_awareness_response = 1

RECURSIVE SumLinks(_, _)
SumLinks(ls, S) ==
    IF S = {} THEN 0
    ELSE LET i == CHOOSE j \in S : TRUE IN ls[i].value + SumLinks(ls, S \ {i})

Outflow(ls, node) == SumLinks(ls, {i \in DOMAIN ls : ls[i].source = node})

Inflow(ls, node) == SumLinks(ls, {i \in DOMAIN ls : ls[i].target = node})

Balanced(ls, total) ==
    /\ Outflow(ls, 0) = total
    /\ \A node \in {1, 4, 7} :
          /\ Cardinality({i \in DOMAIN ls : ls[i].target = node}) = 1
          /\ Outflow(ls, node) = Inflow(ls, node)

(***************************************************************************)
(* C7: in the link list every stage's outflow equals its inflow: the links *)
(* leaving node 0 sum to total_responses, and the links leaving nodes 1, 4 *)
(* and 7 sum to the value of the one link entering the node.               *)
(***************************************************************************)
C7_OutflowEqualsInflow ==
    /\ fig.kind = "figure" => Balanced(fig.links, sankey_data.data.total_responses)
    /\ sankey_data.kind = "dict"
           => Balanced(links(sankey_data.data), sankey_data.data.total_responses)

\* a figure was returned for a funnel with rows at the last stage
C7_Witness ==
    /\ fig.kind = "figure"
    /\ sankey_data.data.reduced_burden_count > 0
    /\ sankey_data.data.no_application_response > 0

ExtractReturned == call \in {"script_extract_sankey_data", "viz_extract_sankey_data"}

(***************************************************************************)
(* C8: when any of the four columns cannot be resolved, extract_sankey_data *)
(* returns None: never a partial funnel.                                   *)
(***************************************************************************)
C8_AllOrNothing == (ExtractReturned /\ ~HasAllColumns(Source)) => ret = None

StageColumns(stage) ==
    CASE stage = "awareness" -> {28}
      [] stage = "application" -> {28, 29}
      [] stage = "acceptance" -> {28, 29, 30}
      [] stage = "financial_burden" -> {30, 31}

ColumnsResolve(d, stage) == d # None /\ \A c \in StageColumns(stage) : c < d.ncols

(***************************************************************************)
(* C9: a missing column is fatal only for the stages that depend on it:    *)
(* every stage whose columns all resolve is still computed and reported,   *)
(* by run_all_analyses and by the script.                                  *)
(***************************************************************************)
C9_SiblingStagesStillReported ==
    /\ (prog = "run_analysis" /\ call = "analyze_financial_burden_reduction") =>
          \A stage \in StageNames :
              ColumnsResolve(df, stage) => stage \in DOMAIN analysis_results
    /\ (call = "script_extract_sankey_data" /\ file.state = "ok"
            /\ ColumnsResolve(file.sheet, "awareness")) => ret # None

StageOf(name) ==
    CASE name = "analyze_awareness" -> "awareness"
      [] name = "analyze_application_rates" -> "application"
      [] name = "analyze_acceptance_rates" -> "acceptance"
      [] name = "analyze_financial_burden_reduction" -> "financial_burden"

AnalyzeReturned ==
    call \in {"analyze_awareness", "analyze_application_rates",
              "analyze_acceptance_rates", "analyze_financial_burden_reduction"}

(***************************************************************************)
(* C10: a stage whose eligible set is empty still returns a result, with   *)
(* total 0 and all counts zero: analyze_* returns a result whenever the    *)
(* stage's columns resolve.                                                *)
(***************************************************************************)
C10_EmptyStageStillReported ==
    (AnalyzeReturned /\ ColumnsResolve(df, StageOf(call))) =>
        /\ ret # None
        /\ ret.total = 0 => \A k \in DOMAIN ret.results : ret.results[k].count = 0

EmptyDataset(d) == HasAllColumns(d) /\ Len(d.rows) = 0

(***************************************************************************)
(* C11: for a sheet with all four funnel columns and no rows,              *)
(* extract_sankey_data (script and visualizer) returns a dictionary with   *)
(* the 14 keys, every value 0, rather than None.                           *)
(***************************************************************************)
C11_EmptyDatasetAllZero ==
    (ExtractReturned /\ EmptyDataset(Source)) =>
        /\ ret.kind = "dict"
        /\ DOMAIN ret.data = SankeyKeys
        /\ \A k \in SankeyKeys : ret.data[k] = 0

\* the visualizer returned the dictionary for a sheet of 32 columns and no rows
C11_Witness ==
    /\ call = "viz_extract_sankey_data" /\ EmptyDataset(df)
    /\ ret.kind = "dict" /\ ret.data.total_responses = 0

\* the positions of the columns the report summarises: the name holds
\* 'fair fare' and 'aware'
SummaryColumns(d) ==
    {c \in 1..d.ncols : in_str(fair_fare, lower(d.names[c])) /\ in_str(aware, lower(d.names[c]))}

\* no cell of the column is 'Yes' or 'No': the summary's denominator is 0
ZeroDenominator(d, c) == RowsWith(d, AllRows(d), c, {Yes, No}) = {}

(***************************************************************************)
(* C12: a percentage with denominator 0 is reported as 0 and processing    *)
(* continues: when an awareness column of the report has no 'Yes' or 'No'  *)
(* cell, the report is written without an exception and the column's       *)
(* summary gives 0 for both percentages.                                   *)
(***************************************************************************)
C12_ZeroDenominatorReportsZero ==
    (prog = "fair_fares_report" /\ call = "write_report") =>
        \A c \in SummaryColumns(df) :
            ZeroDenominator(df, c) =>
                /\ ~ret.raised /\ pc # "error"
                /\ \E i \in DOMAIN ret.sections :
                      /\ ret.sections[i].column = c
                      /\ ret.sections[i].summary.kind = "summary"
                      /\ ret.sections[i].summary.aware_percentage.num = 0
                      /\ ret.sections[i].summary.not_aware_percentage.num = 0

(***************************************************************************)
(* C13: FairFaresVisualizer.create_sankey_diagram returns a figure         *)
(* whenever extract_sankey_data gave a dictionary, without raising, and    *)
(* returns None only when there is no data.                                *)
(***************************************************************************)
C13_FigureWheneverDataAvailable ==
    call = "viz_create_sankey_diagram" =>
        /\ sankey_data.kind = "dict" => (ret.kind = "figure" /\ pc # "raised")
        /\ ret = None => sankey_data = None

\* the count of each node: the keys of sankey_data in the order of the nodes
NodeCountKey ==
    <<"total_responses", "aware_count", "unaware_count", "no_awareness_response",
      "applied_count", "not_applied_count", "no_application_response",
      "accepted_count", "rejected_count", "pending_count", "no_acceptance_response",
      "reduced_burden_count", "not_reduced_burden_count", "no_burden_response">>

\* the node a stage's nodes hang from: the root, or the pass category of the
\* parent stage (Aware 1, Applied 4, Accepted 7)
ParentNode(t) ==
    CASE t \in 1..3 -> 0
      [] t \in 4..6 -> 1
      [] t \in 7..10 -> 4
      [] t \in 11..13 -> 7

WellFormedDiagram(ns, ls, sd) ==
    /\ Len(ns) = 14
    /\ ns[1] = "Total Responses"
    /\ \A i, j \in DOMAIN ns : ns[i] = ns[j] => i = j
    /\ \A t \in 1..(Len(ns) - 1) :
          \E i \in DOMAIN ls :
              /\ ls[i].target = t
              /\ ls[i].value = sd[NodeCountKey[t + 1]]
              /\ ls[i].source = ParentNode(t)
              /\ \A j \in DOMAIN ls : ls[j].target = t => j = i
    /\ \A i \in DOMAIN ls :
          /\ ls[i].target # 0
          /\ ls[i].source \in {0, 1, 4, 7}
          /\ ls[i].source \in 0..(Len(ns) - 1)
          /\ ls[i].target \in 0..(Len(ns) - 1)

(***************************************************************************)
(* C14: the diagram has 14 nodes, node 0 the 'Total Responses' root; every *)
(* other node is the target of exactly one link, whose weight is the       *)
(* node's count and whose source is the root or the pass category of the   *)
(* parent stage (0, 1, 4, 7); no link enters node 0; every index is valid; *)
(* for the figure returned and for the lists built from every dictionary   *)
(* extract_sankey_data returned.                                           *)
(***************************************************************************)
C14_OneNodePerCategoryOneLinkPerNode ==
    /\ fig.kind = "figure" => WellFormedDiagram(fig.nodes, fig.links, sankey_data.data)
    /\ sankey_data.kind = "dict"
           => WellFormedDiagram(nodes, links(sankey_data.data), sankey_data.data)

\* a figure whose Accepted and Pending nodes both carry rows
C14_Witness ==
    /\ fig.kind = "figure"
    /\ sankey_data.data.accepted_count = 1
    /\ sankey_data.data.pending_count = 1

\* the named category a cell value matches once case and surrounding
\* whitespace are ignored
Canonical(v) ==
    CASE v = Str("yes") -> Str("Yes")
      [] v = Str(" Yes") -> Str("Yes")
      [] v = Str("no") -> Str("No")
      [] v = Str("ACCEPTED") -> Str("Accepted")
      [] v = Str("Pending ") -> Str("Pending")
      [] OTHER -> v

\* the rows of S whose cell in column c is a variant of one of the named values
VariantRows(d, S, c, named) == {i \in S : d.rows[i][c] \notin named /\ Canonical(d.rows[i][c]) \in named}

AcceptanceNames == {Accepted, Str("Rejected"), Str("Pending")}

\* the rows of S, when there are any, are all counted in the residual
CountedIn(residual_count, S) == S # {} => residual_count >= Cardinality(S)

\* a variant is never counted in the named category
C15_NamedCountsExact ==
    (ReturnedData /\ HasAllColumns(Source)) =>
        LET d == Source
        IN  /\ ret.data.aware_count = Cardinality(RowsWith(d, AllRows(d), 28, {Yes}))
            /\ ret.data.unaware_count = Cardinality(RowsWith(d, AllRows(d), 28, {No}))
            /\ ret.data.applied_count <= Cardinality(RowsWith(d, AllRows(d), 29, {Yes}))
            /\ ret.data.not_applied_count <= Cardinality(RowsWith(d, AllRows(d), 29, {No}))
            /\ ret.data.accepted_count <= Cardinality(RowsWith(d, AllRows(d), 30, {Accepted}))
            /\ ret.data.rejected_count <= Cardinality(RowsWith(d, AllRows(d), 30, {Str("Rejected")}))
            /\ ret.data.pending_count <= Cardinality(RowsWith(d, AllRows(d), 30, {Str("Pending")}))
            /\ ret.data.reduced_burden_count <= Cardinality(RowsWith(d, AllRows(d), 31, {Yes}))
            /\ ret.data.not_reduced_burden_count <= Cardinality(RowsWith(d, AllRows(d), 31, {No}))

\* a row with a variant does not continue to the next stage
C15_VariantRowsStop ==
    (ReturnedData /\ HasAllColumns(Source)) =>
        LET d == Source
        IN  /\ ret.data.applied_count + ret.data.not_applied_count
                   <= Cardinality(RowsWith(d, AllRows(d), 28, {Yes}))
            /\ ret.data.accepted_count + ret.data.rejected_count + ret.data.pending_count
                   <= Cardinality(RowsWith(d, AllRows(d), 29, {Yes}))
            /\ ret.data.reduced_burden_count + ret.data.not_reduced_burden_count
                   <= Cardinality(RowsWith(d, AllRows(d), 30, {Accepted}))

\* the variants among the eligible rows of the first two stages are in the residual
C15_VariantsInResidualEarly ==
    (ReturnedData /\ HasAllColumns(Source)) =>
        LET d == Source
        IN  /\ CountedIn(ret.data.no_awareness_response,
                          VariantRows(d, AllRows(d), 28, {Yes, No}))
            /\ CountedIn(ret.data.no_application_response,
                          VariantRows(d, AwareRows(d), 29, {Yes, No}))

\* the variants among the eligible rows of the last two stages are in the residual
C15_VariantsInResidualLate ==
    (ReturnedData /\ HasAllColumns(Source)) =>
        LET d == Source
        IN  /\ CountedIn(ret.data.no_acceptance_response,
                          VariantRows(d, AppliedRows(d), 30, AcceptanceNames))
            /\ CountedIn(ret.data.no_burden_response,
                          VariantRows(d, AcceptedRows(d), 31, {Yes, No}))

(***************************************************************************)
(* C15: the named categories are counted by exact equality: a value that   *)
(* differs from 'Yes', 'No', 'Accepted', 'Rejected' or 'Pending' only by   *)
(* case or surrounding whitespace is not counted in the category, does not *)
(* let its row continue to the next stage, and is counted in the residual  *)
(* of its stage (the residual is at least the number of eligible rows with *)
(* such a value).                                                          *)
(***************************************************************************)
C15_ExactEqualityVariantsInResidual ==
    /\ C15_NamedCountsExact
    /\ C15_VariantRowsStop
    /\ C15_VariantsInResidualEarly
    /\ C15_VariantsInResidualLate

(***************************************************************************)
(* C16: aggregation is idempotent: a call of run_all_analyses after the    *)
(* first returns the dictionary the call before returned, and so does a    *)
(* call of extract_sankey_data, whatever other calls were made in between. *)
(***************************************************************************)
C16_Idempotent ==
    [][/\ (call' = "run_all_analyses" /\ pc.run_all_analyses >= 1)
              => (ret' = analysis_results /\ analysis_results' = analysis_results)
       /\ (call' = "viz_extract_sankey_data" /\ pc.extract_sankey_data >= 1)
              => (ret' = sankey_data /\ sankey_data' = sankey_data)]_vars

\* both operations have been called more than once on a sheet with a row,
\* and the last call returned a funnel
C16_Witness ==
    /\ prog = "session"
    /\ pc.run_all_analyses = 2 /\ pc.extract_sankey_data = 2
    /\ call = "viz_extract_sankey_data" /\ ret.kind = "dict" /\ ret.data.total_responses = 1
    /\ "awareness" \in DOMAIN analysis_results

(***************************************************************************)
(* C17: the aggregator never mutates its source: after any sequence of     *)
(* analyze_*, run_all_analyses and extract_sankey_data calls the loader's  *)
(* dataset is the sheet that was loaded and column_indices is as the       *)
(* constructor set it.                                                     *)
(***************************************************************************)
C17_SourceDataUnchanged ==
    prog = "session" =>
        /\ df = load_data(file)
        /\ column_indices = initial_column_indices

\* every operation has run, the last call returned, and the sheet holds a
\* row with a blank awareness cell
C17_Witness ==
    /\ prog = "session"
    /\ pc.run_all_analyses >= 1 /\ pc.extract_sankey_data >= 1
    /\ call = "analyze_awareness" /\ ret # None
    /\ Len(df.rows) = 1 /\ isna(df.rows[1][28])

(***************************************************************************)
(* C18: when the spreadsheet is missing or cannot be read, load_data       *)
(* returns False and df stays None, every get_*_column and analyze_*       *)
(* returns None, run_all_analyses records nothing, extract_sankey_data and *)
(* create_sankey_diagram return None, and no figure or file is produced.   *)
(***************************************************************************)
C18_UnreadableSourceNoDiagram ==
    file.state # "ok" =>
        /\ fig = None /\ html = FALSE
        /\ prog = "run_analysis" =>
              /\ ~load_data_returns(file)
              /\ df = None
              /\ \A key \in DOMAIN column_indices : get_column(df, key) = None
              /\ AnalyzeReturned => ret = None
              /\ analysis_results = <<>>
              /\ sankey_data = None
              /\ call \in {"viz_extract_sankey_data", "viz_create_sankey_diagram"} => ret = None

\* run_analysis.py ran to its end on a file that exists but cannot be read
C18_Witness ==
    /\ prog = "run_analysis" /\ file.state = "unreadable"
    /\ call = "save_sankey_diagram" /\ pc = "done"
    /\ html = FALSE

\* the non-null cells of the rows at positions k, k + 1, ... (the first row
\* is at position 0), in row order
CellsAfterRows(col, k) == SelectSeq(SubSeq(col, k + 1, Len(col)), LAMBDA v : ~isna(v))

(***************************************************************************)
(* C20: extract_column_data with skiprowcount = k returns the non-null     *)
(* values of the named column from the rows after the first k rows, in row *)
(* order.                                                                  *)
(***************************************************************************)
C20_SkipsFirstRows ==
    (call = "extract_column_data" /\ ret.kind = "list") =>
        ret.values = CellsAfterRows(column(df, 1), prog.skiprowcount)

(***************************************************************************)
(* C21: on every sheet in which the four columns resolve, the script's     *)
(* extract_sankey_data and the visualizer's return the same dictionary:    *)
(* what either returned is what the other computes from the same sheet.    *)
(***************************************************************************)
C21_ScriptAndClassAgree ==
    /\ (call = "script_extract_sankey_data" /\ HasAllColumns(Source))
           => ret = viz_extract_sankey_data(file.sheet)
    /\ (call = "viz_extract_sankey_data" /\ HasAllColumns(Source))
           => ret = script_extract_sankey_data(file)

\* the visualizer returned a funnel for a sheet with rows none of which is
\* aware, so that the analyzer had no result for the three later stages
C21_Witness ==
    /\ call = "viz_extract_sankey_data" /\ HasAllColumns(df)
    /\ ret.kind = "dict" /\ ret.data.total_responses = 2 /\ ret.data.aware_count = 0
    /\ DOMAIN analysis_results = {"awareness"}

(***************************************************************************)
(* Reference positions and sums for the ridership table.                   *)
(***************************************************************************)
\* the position of the i-th record (8 for the monthly total) of month m of
\* the yi-th year, and of that year's own total
TablePos(yi, m, i) == (yi - 1) * 97 + (m - 1) * 8 + i
YearPos(yi) == yi * 97

\* the station's ridership on one day of one month, from the dataset's rows
DayRidership(year, month, day) ==
    LET S == { k \in DOMAIN file.rows : /\ file.rows[k].id = prog.station_id
                                        /\ file.rows[k].Year = year
                                        /\ file.rows[k].Month = month
                                        /\ file.rows[k].Day = day }
    IN  SumOver([k \in S |-> file.rows[k].Ridership], S)

\* the sum of the 'Ridership' of the table's records at the positions P
TableSum(P) == SumOver([p \in P |-> df[p].Ridership], P)

TableBuilt == prog.name = "average_ridership" /\ pc # "main"

(***************************************************************************)
(* C22: the table of average_ridership_df has 388 records: for each year   *)
(* and month seven day records of 4 times the day's summed ridership, then *)
(* a monthly 'Total' equal to the sum of those seven, and after the twelve *)
(* months a yearly 'Total' equal to the sum of the monthly totals; the sum *)
(* of a year's records other than 'Total' is the yearly total that         *)
(* compare_annual_ridership reads.  The table is examined as               *)
(* average_ridership_df returns it; no later step changes it.              *)
(***************************************************************************)
C22_TotalsConsistent ==
    /\ call = "average_ridership_df" =>
        /\ Len(df) = 388
        /\ \A yi \in 1..4 : \A m \in 1..12 :
              /\ \A i \in 1..7 :
                    df[TablePos(yi, m, i)] =
                        Record(ridership_years[yi], Num(m), week_days[i],
                               4 * DayRidership(ridership_years[yi], m, week_days[i]))
              /\ df[TablePos(yi, m, 8)] =
                    Record(ridership_years[yi], Num(m), "Total",
                           TableSum({TablePos(yi, m, i) : i \in 1..7}))
        /\ \A yi \in 1..4 :
              df[YearPos(yi)] =
                  Record(ridership_years[yi], Str("Total"), "Total",
                         TableSum({TablePos(yi, m, 8) : m \in 1..12}))
    /\ call = "plot_yearly_ridership" =>
        /\ DOMAIN fig.heights = 2021..2024
        /\ \A year \in 2021..2024 :
              fig.heights[year] = compare_annual_ridership(year, df)
    /\ (call = "compare_annual_ridership" /\ analysis_results.year \in 2021..2024) =>
        analysis_results.total_ridership = fig.heights[analysis_results.year]

\* 2024's total of 12 was read from a table whose January and December
\* totals are 4 and 8
C22_Witness ==
    /\ TableBuilt /\ pc = "done"
    /\ analysis_results.year = 2024 /\ analysis_results.total_ridership = 12
    /\ df[TablePos(4, 1, 8)].Ridership = 4
    /\ df[TablePos(4, 12, 8)].Ridership = 8

\* the position, among the lines average_ridership_info writes, of the i-th
\* line (8 for the monthly total) of month m of the yi-th year
InfoPos(yi, m, i) == (yi - 1) * 110 + 1 + (m - 1) * 9 + 1 + i

(***************************************************************************)
(* C27: for the same station and dataset, each per-day, per-month and      *)
(* per-year amount average_ridership_info writes is the 'Ridership' of the *)
(* corresponding record of average_ridership_df's table, and the four-year *)
(* total written is the sum of the four yearly 'Total' records.            *)
(***************************************************************************)
C27_InfoMatchesTable ==
    call = "average_ridership_info" =>
        /\ Len(ret) = 441
        /\ \A yi \in 1..4 : \A m \in 1..12 :
              /\ \A i \in 1..7 :
                    ret[InfoPos(yi, m, i)] =
                        Line(week_days[i], df[TablePos(yi, m, i)].Ridership)
              /\ ret[InfoPos(yi, m, 8)] =
                    Line("All Ridership in Month", df[TablePos(yi, m, 8)].Ridership)
        /\ \A yi \in 1..4 :
              ret[yi * 110] = Line("All Ridership in Year", df[YearPos(yi)].Ridership)
        /\ ret[441] = Line("All Ridership in Four Years",
                           TableSum({YearPos(yi) : yi \in 1..4}))

\* the file reports 4 for 2021, 8 for 2024 and 12 for the four years
C27_Witness ==
    /\ call = "average_ridership_info"
    /\ ret[110] = "All Ridership in Year: 4"
    /\ ret[440] = "All Ridership in Year: 8"
    /\ ret[441] = "All Ridership in Four Years: 12"
    /\ df[YearPos(1)].Ridership = 4

\* the destinations a call groups the rows by, and a destination's summed
\* ridership taken from the rows
Destinations ==
    IF call = "dashboard_top_station_destinations"
    THEN { <<file.rows[i].name, file.rows[i].id>> : i \in DOMAIN file.rows }
    ELSE { file.rows[i].name : i \in DOMAIN file.rows }

DestinationSum(k) ==
    ridership_sum(SelectSeq(file.rows,
                            LAMBDA r : IF call = "dashboard_top_station_destinations"
                                       THEN <<r.name, r.id>> = k
                                       ELSE r.name = k))

Listed == { ret[i].key : i \in DOMAIN ret }

\* sum a comes no later than sum b in the order the call lists by
Before(a, b) == IF call = "bottom_station_destinations" THEN a <= b ELSE a >= b

(***************************************************************************)
(* C23: top_station_destinations lists min(top_n, number of distinct       *)
(* destinations) destinations, each once with its summed ridership, in     *)
(* non-increasing order of the sums, and no destination left out has a     *)
(* larger sum than a listed one; bottom_station_destinations does the same *)
(* in non-decreasing order with no smaller sum left out.                   *)
(***************************************************************************)
C23_HighestSumsListedInOrder ==
    (prog.name = "station_destinations" /\ pc = "done") =>
        /\ Len(ret) = (IF prog.n < Cardinality(Destinations)
                       THEN prog.n ELSE Cardinality(Destinations))
        /\ Cardinality(Listed) = Len(ret)
        /\ \A i \in DOMAIN ret :
              /\ ret[i].key \in Destinations
              /\ ret[i].sum = DestinationSum(ret[i].key)
        /\ \A i \in DOMAIN ret : \A j \in DOMAIN ret :
              i < j => Before(ret[i].sum, ret[j].sum)
        /\ \A k \in Destinations \ Listed : \A i \in DOMAIN ret :
              Before(ret[i].sum, DestinationSum(k))

\* the top one of two destinations, with a sum of 3 made of two rows, the
\* other left out
C23_Witness ==
    /\ prog.name = "station_destinations" /\ call = "top_station_destinations"
    /\ prog.n = 1 /\ Cardinality(Destinations) = 2
    /\ Len(ret) = 1 /\ ret[1].sum = 3
    /\ \E k \in Destinations \ Listed : DestinationSum(k) = 1

\* the slider values, in the order advance_time returns them
Hour == ret[1]
Day == ret[2]
Year == ret[3]
Month == ret[4]

Timelapse == prog.name = "timelapse_dashboard"

\* the calls of advance_time made since the start: the ticks of the
\* Interval and, where the run starts with the page loading, the initial call
Ticks == pc.n_intervals + (IF prog.page = "loading" /\ pc.loaded THEN 1 ELSE 0)

(***************************************************************************)
(* C24: after any number of ticks from a valid slider state the hour is in *)
(* 0..23, the day is one of the seven weekday names, the month is in 1..12 *)
(* and the year is in 2021..2024.                                          *)
(***************************************************************************)
C24_ClockInRange ==
    Timelapse =>
        /\ Hour \in 0..23
        /\ Day \in { days[i] : i \in DOMAIN days }
        /\ Month \in 1..12
        /\ Year \in 2021..2024

\* the tick at the last hour of Sunday in December 2024 has been taken
C24_Witness ==
    /\ Timelapse /\ call = "advance_time"
    /\ prog.start = <<23, "Sunday", 2024, 12>> /\ pc.n_intervals = 1
    /\ Year = 2021 /\ Month = 1 /\ Hour = 0

\* the position of the clock within the week, 0..167, and the day that follows
WeekPos(day, hour) == ((CHOOSE i \in DOMAIN days : days[i] = day) - 1) * 24 + hour
NextDay(day) == days[((CHOOSE i \in DOMAIN days : days[i] = day) % 7) + 1]

(***************************************************************************)
(* C25: a tick of advance_time moves the hour on by 1 modulo 24; the day   *)
(* moves on exactly when the hour wraps from 23 to 0, the month exactly    *)
(* when the day also wraps from Sunday to Monday, that is once in every    *)
(* 168 ticks, when the position in the week returns to 0, and the year     *)
(* exactly when the month also wraps from 12 to 1, 2024 being followed by  *)
(* 2021; whatever does not carry is left as it was.                        *)
(***************************************************************************)
C25_MixedRadixCarry ==
    [][(Timelapse /\ Ticks' # Ticks) =>
          /\ Hour' = (Hour + 1) % 24
          /\ Day' = IF Hour = 23 THEN NextDay(Day) ELSE Day
          /\ Month' = IF Hour = 23 /\ Day = "Sunday" THEN (Month % 12) + 1 ELSE Month
          /\ Year' = IF Hour = 23 /\ Day = "Sunday" /\ Month = 12
                     THEN (IF Year = 2024 THEN 2021 ELSE Year + 1)
                     ELSE Year
          /\ WeekPos(Day', Hour') = (WeekPos(Day, Hour) + 1) % 168
          /\ (Month' # Month) <=> (WeekPos(Day', Hour') = 0)
          /\ (Year' # Year) <=> (WeekPos(Day', Hour') = 0 /\ Month' = 1)]_vars

\* from 8 o'clock on a Monday of January the initial call and 159 ticks
\* have carried into February
C25_Witness ==
    /\ Timelapse /\ call = "advance_time"
    /\ prog.start = <<8, "Monday", 2021, 1>> /\ pc.n_intervals = 159
    /\ ret = <<0, "Monday", 2021, 2>>

\* the 24 x 7 x 12 x 4 combinations, numbered 0..8063 with the hour running
\* fastest, then the day, the month and the year
AllClocks ==
    { <<h, days[i], y, m>> : h \in 0..23, i \in DOMAIN days, y \in 2021..2024, m \in 1..12 }

ClockRank(c) == ((c[3] - 2021) * 12 + (c[4] - 1)) * 168 + WeekPos(c[2], c[1])

ClockAt(k) ==
    <<k % 24, days[((k \div 24) % 7) + 1], 2021 + (k \div 2016), ((k \div 168) % 12) + 1>>

(***************************************************************************)
(* C26: from a valid start the n-th call of advance_time (a tick of the    *)
(* Interval, or the initial call) shows the combination n places after the *)
(* start in the cyclic numbering of the 8064 combinations, so that 8064    *)
(* calls show every combination, and the clock is back at the start after  *)
(* 8064 calls and at no call before.                                       *)
(***************************************************************************)
C26_FullCycle ==
    Timelapse =>
        /\ ret = ClockAt((ClockRank(prog.start) + Ticks) % 8064)
        /\ (ret = prog.start) <=> (Ticks % 8064 = 0)
        /\ Ticks >= 8063 =>
              /\ Cardinality(AllClocks) = 8064
              /\ { ClockAt((ClockRank(prog.start) + k) % 8064) : k \in 0..8063 } = AllClocks

\* the initial call and 8063 ticks, 8064 calls of advance_time from the
\* layout's values, have brought them back
C26_Witness ==
    /\ Timelapse /\ call = "advance_time"
    /\ Ticks = 8064 /\ pc.n_intervals = 8063
    /\ prog.start = <<8, "Monday", 2021, 1>> /\ ret = prog.start

\* the sum of the 'count' of the entries of a stage's 'results'
CountsOf(results) == SumOver([k \in DOMAIN results |-> results[k].count], DOMAIN results)

(***************************************************************************)
(* C28: in every result an analyze_* operation returns, the counts of the  *)
(* entries of 'results' sum to the reported total, whatever the cells:     *)
(* blanks, a literal 'No response', distinct values of one string form.    *)
(***************************************************************************)
C28_CountsSumToTotal ==
    (AnalyzeReturned /\ ret # None) => CountsOf(ret.results) = ret.total

(***************************************************************************)
(* C29: extract_sankey_data, in the script and in the visualizer, raises   *)
(* nothing and returns either None or a dictionary of exactly the 14 keys, *)
(* each value an integer.                                                  *)
(***************************************************************************)
C29_NoneOrFourteenIntegers ==
    ExtractReturned =>
        /\ pc # "raised"
        /\ \/ ret = None
           \/ /\ ret.kind = "dict"
              /\ DOMAIN ret.data = { NodeCountKey[i] : i \in 1..14 }
              /\ \A k \in DOMAIN ret.data : ret.data[k] \in Int

\* the script's read of an unreadable file failed inside
\* extract_sankey_data, which returned None
C29_Witness ==
    /\ prog = "fair_fares_sankey" /\ call = "script_extract_sankey_data"
    /\ file.state = "unreadable"
    /\ ret = None /\ pc = "done"

====
